---- MODULE Spec2Model ----
(***************************************************************************)
(* Bank Analyzer: the CSV import pipeline (src/src/importer.py), the       *)
(* transaction store (src/src/database.py) and the categorization engine   *)
(* (src/src/categorizer.py).                                               *)
(*                                                                         *)
(* A Python str is a sequence of one-character strings, so that strip,     *)
(* lower, upper and the substring test are computed and not assumed.  A    *)
(* CSV file is the sequence of its records, each record the sequence of    *)
(* its cells as csv.reader would split them.  A float amount is an exact   *)
(* decimal n / 10^e or NaN; binary rounding of a subtraction is not        *)
(* modelled.                                                               *)
(*                                                                         *)
(* Spec runs import_file on files the environment writes row by row;       *)
(* CatSpec runs the categorization calls on a store filled by imports;     *)
(* CategorySpec runs the taxonomy calls and the seeding of the defaults on *)
(* the categories table; RuleSpec runs the category and rule calls and the *)
(* categorization of a description; ReferenceSpec runs the categorization *)
(* and the deletion of categories on a seeded store; DuplicateSpec runs    *)
(* imports and remove_duplicates.  AutoSpec, ParseSpec, AmountSpec and     *)
(* DescriptionSpec apply auto_categorize, _parse_csv, _clean_amount and    *)
(* _parse_description to inputs drawn by their initial states; SignSpec,   *)
(* MangledSpec and LabelSpec run import_file on files whose amounts,       *)
(* column names and labels are drawn by their initial states.              *)
(***************************************************************************)
EXTENDS Integers, Sequences, FiniteSets, TLC

(***************************************************************************)
(* Bounds of the model.                                                    *)
(***************************************************************************)
\* longest sequence of data rows of a generated file
MaxRows == 2
\* largest number of stored transactions; an import that would exceed it is not taken
MaxStore == 2

(***************************************************************************)
(* Python text primitives.                                                 *)
(***************************************************************************)
\* the no-break space U+00A0
NBSP == " "

\* the characters str.strip removes, among those of the modelled inputs
Whitespace == {" ", "\t", "\n", "\r", "\f", NBSP}

LowerLetters ==
    <<"a","b","c","d","e","f","g","h","i","j","k","l","m","n","o","p","q",
      "r","s","t","u","v","w","x","y","z","é","ã">>

UpperLetters ==
    <<"A","B","C","D","E","F","G","H","I","J","K","L","M","N","O","P","Q",
      "R","S","T","U","V","W","X","Y","Z","É","Ã">>

Digits == <<"0","1","2","3","4","5","6","7","8","9">>

upper_char(c) ==
    IF \E i \in 1..Len(LowerLetters) : LowerLetters[i] = c
    THEN UpperLetters[CHOOSE i \in 1..Len(LowerLetters) : LowerLetters[i] = c]
    ELSE c

lower_char(c) ==
    IF \E i \in 1..Len(UpperLetters) : UpperLetters[i] = c
    THEN LowerLetters[CHOOSE i \in 1..Len(UpperLetters) : UpperLetters[i] = c]
    ELSE c

str_upper(s) == [i \in 1..Len(s) |-> upper_char(s[i])]

str_lower(s) == [i \in 1..Len(s) |-> lower_char(s[i])]

\* Python: sub in s
str_in(sub, s) ==
    \E i \in 0..(Len(s) - Len(sub)) : SubSeq(s, i + 1, i + Len(sub)) = sub

\* Python: s.strip()
str_strip(s) ==
    LET keep == {i \in 1..Len(s) : s[i] \notin Whitespace}
    IN  IF keep = {} THEN <<>>
        ELSE SubSeq(s, CHOOSE i \in keep : \A j \in keep : i <= j,
                       CHOOSE i \in keep : \A j \in keep : i >= j)

\* Python: s.replace(c, '') for a one-character c
str_remove(s, c) == SelectSeq(s, LAMBDA x : x # c)

\* Python: s.replace(c, d) for one-character c and d
str_replace(s, c, d) == [i \in 1..Len(s) |-> IF s[i] = c THEN d ELSE s[i]]

\* Python: s.count(c) for a one-character c
str_count(s, c) == Cardinality({i \in 1..Len(s) : s[i] = c})

RECURSIVE str_join(_, _)
\* Python: sep.join(parts)
str_join(sep, parts) ==
    IF parts = <<>> THEN <<>>
    ELSE IF Len(parts) = 1 THEN parts[1]
    ELSE parts[1] \o sep \o str_join(sep, Tail(parts))

\* Python None where a str is expected (DictReader restval and restkey)
None == <<"None">>

\* the list DictReader stores under restkey for the surplus fields of a row
RestList == <<"list">>

IsDigits(s) == s # <<>> /\ \A i \in 1..Len(s) : \E d \in 1..10 : Digits[d] = s[i]

DigitVal(c) == (CHOOSE d \in 1..10 : Digits[d] = c) - 1

RECURSIVE NatVal(_)
\* int(s) for a string of decimal digits
NatVal(s) ==
    IF s = <<>> THEN 0
    ELSE 10 * NatVal(SubSeq(s, 1, Len(s) - 1)) + DigitVal(s[Len(s)])

(***************************************************************************)
(* Python dict: the sequence of its <<key, value>> pairs in insertion      *)
(* order, keys distinct.                                                   *)
(***************************************************************************)
dict_has(d, k) == \E i \in 1..Len(d) : d[i][1] = k

dict_get(d, k, default) ==
    IF dict_has(d, k) THEN d[CHOOSE i \in 1..Len(d) : d[i][1] = k][2] ELSE default

dict_set(d, k, v) ==
    IF dict_has(d, k)
    THEN [i \in 1..Len(d) |-> IF d[i][1] = k THEN <<k, v>> ELSE d[i]]
    ELSE Append(d, <<k, v>>)

dict_keys(d) == [i \in 1..Len(d) |-> d[i][1]]

RECURSIVE dict_zip(_, _, _)
\* dict(zip(keys, values)) added to d
dict_zip(d, keys, values) ==
    IF keys = <<>> \/ values = <<>> THEN d
    ELSE dict_zip(dict_set(d, Head(keys), Head(values)), Tail(keys), Tail(values))

RECURSIVE dict_fill(_, _, _)
\* d[key] = v for every key of keys
dict_fill(d, keys, v) ==
    IF keys = <<>> THEN d
    ELSE dict_fill(dict_set(d, Head(keys), v), Tail(keys), v)

RECURSIVE strip_keys(_, _)
\* {k.strip(): v for k, v in row.items()}, for a row without the key None
strip_keys(d, row) ==
    IF row = <<>> THEN d
    ELSE strip_keys(dict_set(d, str_strip(row[1][1]), row[1][2]), Tail(row))

(***************************************************************************)
(* Configuration of the importer.                                          *)
(***************************************************************************)
french_bank ==
    [ date_column        |-> <<"D","a","t","e">>,
      description_column |-> <<"L","i","b","e","l","l","é">>,
      debit_column       |-> <<"D","é","b","i","t"," ","e","u","r","o","s">>,
      credit_column      |-> <<"C","r","é","d","i","t"," ","e","u","r","o","s">>,
      delimiter          |-> <<";">>,
      date_format        |-> "%d/%m/%Y" ]

DEFAULT_CONFIG == french_bank

expected_patterns ==
    << <<<<"D","a","t","e">>, <<"L","i","b","e","l","l">>>>,
       <<<<"D","a","t","e">>, <<"D">>>>,
       <<<<"D","a","t","e">>, <<"C","r","é","d","i","t">>>> >>

(***************************************************************************)
(* CSVImporter._parse_csv                                                  *)
(***************************************************************************)
\* the text of a record, as readlines() returns it
LineText(config, cells) == str_join(config.delimiter, cells)

\* a line matches when all parts of one pattern occur in it, upper-cased
MatchesPattern(line) ==
    \E p \in 1..Len(expected_patterns) :
        \A q \in 1..Len(expected_patterns[p]) :
            str_in(str_upper(expected_patterns[p][q]), str_upper(line))

MatchesFallback(line) ==
    str_in(<<"D","a","t","e">>, line) /\ (str_in(<<"L","i","b","e","l","l">>, line) \/ str_in(<<"D","e","s","c","r","i","p","t","i","o","n">>, line))

\* index of the header line, 0 when there is none
HeaderRowIdx(config, lines) ==
    LET hits == {i \in 1..Len(lines) : MatchesPattern(LineText(config, lines[i]))}
        loose == {i \in 1..Len(lines) : MatchesFallback(LineText(config, lines[i]))}
    IN  IF hits # {} THEN CHOOSE i \in hits : \A j \in hits : i <= j
        ELSE IF loose # {} THEN CHOOSE i \in loose : \A j \in loose : i <= j
        ELSE 0

\* one row of csv.DictReader: missing fields are None, surplus fields go
\* under the key None
DictRow(fieldnames, cells) ==
    LET lf == Len(fieldnames)
        lr == Len(cells)
        d  == dict_zip(<<>>, fieldnames, cells)
    IN  IF lf < lr THEN dict_set(d, None, RestList)
        ELSE IF lf > lr THEN dict_fill(d, SubSeq(fieldnames, lr + 1, lf), None)
        ELSE d

\* str(v).strip() is not empty
HasText(v) == v = None \/ v = RestList \/ str_strip(v) # <<>>

\* the filter of _parse_csv: row and any(str(v).strip() for v in row.values())
KeepRow(row) == row # <<>> /\ \E i \in 1..Len(row) : HasText(row[i][2])

_parse_csv(config, file) ==
    LET idx == HeaderRowIdx(config, file.lines)
    IN  IF idx = 0
        THEN [error |-> "Could not find header row in CSV file", rows |-> <<>>]
        ELSE LET fieldnames == file.lines[idx]
                 records == SelectSeq(SubSeq(file.lines, idx + 1, Len(file.lines)),
                                      LAMBDA cells : cells # <<>>)
                 dicts == [i \in 1..Len(records) |-> DictRow(fieldnames, records[i])]
             IN  [error |-> "", rows |-> SelectSeq(dicts, KeepRow)]

(***************************************************************************)
(* CSVImporter._parse_date for the format %d/%m/%Y                         *)
(***************************************************************************)
RECURSIVE str_split(_, _)
\* Python: s.split(c) for a one-character c
str_split(s, c) ==
    LET at == {i \in 1..Len(s) : s[i] = c}
    IN  IF at = {} THEN <<s>>
        ELSE LET i == CHOOSE k \in at : \A j \in at : k <= j
             IN  <<SubSeq(s, 1, i - 1)>> \o str_split(SubSeq(s, i + 1, Len(s)), c)

RECURSIVE NatStr(_, _)
\* the decimal digits of n, zero-padded to at least w characters
NatStr(n, w) ==
    IF n < 10 /\ w <= 1 THEN <<Digits[n + 1]>>
    ELSE NatStr(n \div 10, w - 1) \o <<Digits[(n % 10) + 1]>>

IsLeap(y) == (y % 4 = 0 /\ y % 100 # 0) \/ y % 400 = 0

DaysIn(m, y) ==
    IF m = 2 THEN (IF IsLeap(y) THEN 29 ELSE 28)
    ELSE IF m \in {4, 6, 9, 11} THEN 30 ELSE 31

\* datetime.strptime(date_str.strip(), '%d/%m/%Y').strftime('%Y-%m-%d');
\* ok = FALSE stands for the ValueError
_parse_date(date_str) ==
    LET parts == str_split(str_strip(date_str), "/")
        wellformed == /\ Len(parts) = 3
                      /\ \A i \in 1..3 : IsDigits(parts[i])
                      /\ Len(parts[1]) \in 1..2
                      /\ Len(parts[2]) \in 1..2
                      /\ Len(parts[3]) = 4
    IN  IF ~wellformed THEN [ok |-> FALSE, value |-> <<>>]
        ELSE LET d == NatVal(parts[1])
                 m == NatVal(parts[2])
                 y == NatVal(parts[3])
             IN  IF y >= 1 /\ m \in 1..12 /\ d >= 1 /\ d <= DaysIn(m, y)
                 THEN [ok |-> TRUE,
                       value |-> NatStr(y, 4) \o <<"-">> \o NatStr(m, 2) \o <<"-">> \o NatStr(d, 2)]
                 ELSE [ok |-> FALSE, value |-> <<>>]

(***************************************************************************)
(* Amounts: the float n / 10^e, or NaN.                                    *)
(***************************************************************************)
RECURSIVE Pow10(_)
Pow10(k) == IF k = 0 THEN 1 ELSE 10 * Pow10(k - 1)

RECURSIVE Dec(_, _)
\* the canonical representation of n / 10^e
Dec(n, e) ==
    IF e > 0 /\ n % 10 = 0 THEN Dec(n \div 10, e - 1)
    ELSE [nan |-> FALSE, n |-> n, e |-> e]

NaN == [nan |-> TRUE, n |-> 0, e |-> 0]

Zero == Dec(0, 0)

DecNeg(a) == IF a.nan THEN NaN ELSE Dec(0 - a.n, a.e)

DecSub(a, b) ==
    IF a.nan \/ b.nan THEN NaN
    ELSE LET e == IF a.e >= b.e THEN a.e ELSE b.e
         IN  Dec(a.n * Pow10(e - a.e) - b.n * Pow10(e - b.e), e)

\* a > 0; a comparison with NaN is false
DecPositive(a) == ~a.nan /\ a.n > 0

\* SQL: x = y on REAL values; NaN is stored as NULL and equals nothing
DecEq(a, b) == ~a.nan /\ ~b.nan /\ a = b

\* Python float(s) for an optional sign followed by "nan" or by decimal
\* digits with at most one point; ok = FALSE stands for the ValueError.
\* Exponents, underscores and infinities are outside the modelled inputs.
ParseFloat(s) ==
    LET signed == s # <<>> /\ s[1] \in {"+", "-"}
        body == IF signed THEN Tail(s) ELSE s
        neg == signed /\ s[1] = "-"
        parts == str_split(body, ".")
        ip == parts[1]
        fp == IF Len(parts) = 2 THEN parts[2] ELSE <<>>
        digits == ip \o fp
    IN  IF str_lower(body) = <<"n","a","n">> THEN [ok |-> TRUE, value |-> NaN]
        ELSE IF Len(parts) <= 2 /\ IsDigits(digits)
        THEN [ok |-> TRUE,
              value |-> IF neg THEN Dec(0 - NatVal(digits), Len(fp))
                               ELSE Dec(NatVal(digits), Len(fp))]
        ELSE [ok |-> FALSE, value |-> Zero]

\* _clean_amount that keeps every point of the text
_clean_amount_nomerge(amount_str) ==
    IF amount_str = None \/ amount_str = <<>> \/ str_strip(amount_str) = <<>> THEN Zero
    ELSE LET nospace == str_strip(str_remove(str_remove(amount_str, " "), NBSP))
             f == ParseFloat(str_replace(nospace, ",", "."))
         IN  IF f.ok THEN f.value ELSE Zero

\* CSVImporter._clean_amount
_clean_amount(amount_str) ==
    IF amount_str = None \/ amount_str = <<>> \/ str_strip(amount_str) = <<>> THEN Zero
    ELSE LET nospace == str_strip(str_remove(str_remove(amount_str, " "), NBSP))
             dotted == str_replace(nospace, ",", ".")
             parts == str_split(dotted, ".")
             merged == IF str_count(dotted, ".") > 1
                       THEN str_join(<<>>, SubSeq(parts, 1, Len(parts) - 1))
                            \o <<".">> \o parts[Len(parts)]
                       ELSE dotted
             f == ParseFloat(merged)
         IN  IF f.ok THEN f.value ELSE Zero

(***************************************************************************)
(* Database: the transactions table.                                       *)
(***************************************************************************)
\* SQL NULL in the category column
NULL == "NULL"

Transaction(date, description, amount) ==
    [date |-> date, description |-> description, amount |-> amount, category |-> NULL]

\* Database.get_duplicate_check: the id of a stored transaction with the
\* same date, description and amount, 0 for None
get_duplicate_check(table, date, description, amount) ==
    LET hits == {i \in 1..Len(table) : /\ table[i].date = date
                                       /\ table[i].description = description
                                       /\ DecEq(table[i].amount, amount)}
    IN  IF hits = {} THEN 0
        ELSE table[CHOOSE i \in hits : \A j \in hits : i <= j].id

\* Database.insert_transaction; amount REAL NOT NULL rejects a NaN, which
\* sqlite3 binds as NULL
insert_transaction(db, transaction) ==
    IF transaction.amount.nan
    THEN [db EXCEPT !.error = "IntegrityError"]
    ELSE [db EXCEPT !.table = Append(@, [id |-> db.sequence + 1,
                                         date |-> transaction.date,
                                         description |-> transaction.description,
                                         amount |-> transaction.amount,
                                         category |-> transaction.category]),
                    !.sequence = @ + 1]

RECURSIVE InsertAll_reversed(_, _)
\* InsertAll from the last transaction to the first
InsertAll_reversed(db, transactions) ==
    IF transactions = <<>> \/ db.error # "" THEN db
    ELSE InsertAll_reversed(insert_transaction(db, transactions[Len(transactions)]),
                            SubSeq(transactions, 1, Len(transactions) - 1))

RECURSIVE InsertAll(_, _)
\* for transaction in transactions: db.insert_transaction(transaction);
\* every insert commits, the first failing one ends the loop
InsertAll(db, transactions) ==
    IF transactions = <<>> \/ db.error # "" THEN db
    ELSE InsertAll(insert_transaction(db, Head(transactions)), Tail(transactions))


\* the rows of the transactions table grouped with t by
\* GROUP BY date, description, amount
Group(table, t) ==
    {i \in 1..Len(table) : /\ table[i].date = t.date
                           /\ table[i].description = t.description
                           /\ DecEq(table[i].amount, t.amount)}

\* remove_duplicates that keeps the last row of each group
remove_duplicates_keep_last(db) ==
    LET kept == {table_id \in {db.table[i].id : i \in 1..Len(db.table)} :
                    \E i \in 1..Len(db.table) :
                        /\ db.table[i].id = table_id
                        /\ \A j \in Group(db.table, db.table[i]) :
                               db.table[j].id <= table_id}
        left == SelectSeq(db.table, LAMBDA t : t.id \in kept)
    IN  [db |-> [db EXCEPT !.table = left], count |-> Len(db.table) - Len(left)]

\* Database.remove_duplicates: DELETE FROM transactions WHERE id NOT IN
\* (SELECT MIN(id) FROM transactions GROUP BY date, description, amount);
\* the result is the number of rows deleted
remove_duplicates(db) ==
    LET kept == {table_id \in {db.table[i].id : i \in 1..Len(db.table)} :
                    \E i \in 1..Len(db.table) :
                        /\ db.table[i].id = table_id
                        /\ \A j \in Group(db.table, db.table[i]) :
                               table_id <= db.table[j].id}
        left == SelectSeq(db.table, LAMBDA t : t.id \in kept)
    IN  [db |-> [db EXCEPT !.table = left], count |-> Len(db.table) - Len(left)]

\* Categorizer.remove_duplicate_transactions, with a database
remove_duplicate_transactions(db) == remove_duplicates(db)
(***************************************************************************)
(* CSVImporter._parse_description                                          *)
(***************************************************************************)
RECURSIVE str_words(_)
\* Python: s.split(), the runs of characters that are not whitespace
str_words(s) ==
    IF \A i \in 1..Len(s) : s[i] \in Whitespace THEN <<>>
    ELSE IF s[1] \in Whitespace THEN str_words(Tail(s))
    ELSE IF \A i \in 1..Len(s) : s[i] \notin Whitespace THEN <<s>>
    ELSE <<SubSeq(s, 1, (CHOOSE i \in 1..Len(s) :
                            /\ s[i] \in Whitespace
                            /\ \A j \in 1..(i - 1) : s[j] \notin Whitespace) - 1)>>
         \o str_words(SubSeq(s, CHOOSE i \in 1..Len(s) :
                                     /\ s[i] \in Whitespace
                                     /\ \A j \in 1..(i - 1) : s[j] \notin Whitespace,
                                Len(s)))

\* Python: s.startswith(prefix)
str_startswith(s, prefix) ==
    Len(s) >= Len(prefix) /\ SubSeq(s, 1, Len(prefix)) = prefix

\* ' '.join(description.replace('\n', ' ').replace('\r', ' ').split()).strip()
CollapseSpaces(description) ==
    str_strip(str_join(<<" ">>,
                       str_words(str_replace(str_replace(description, "\n", " "),
                                             "\r", " "))))

\* transaction_types with the general prefix VIREMENT before the specific ones
transaction_types_general_first ==
    << <<"P","A","I","E","M","E","N","T"," ","P","A","R"," ","C","A","R","T","E">>,
       <<"V","I","R","E","M","E","N","T">>,
       <<"V","I","R","E","M","E","N","T"," ","E","N"," ","V","O","T","R","E"," ","F","A","V","E","U","R">>,
       <<"V","I","R","E","M","E","N","T"," ","E","M","I","S">>,
       <<"P","R","E","L","E","V","E","M","E","N","T">>,
       <<"R","E","T","R","A","I","T"," ","A","U"," ","D","I","S","T","R","I","B","U","T","E","U","R">>,
       <<"R","E","M","B","O","U","R","S","E","M","E","N","T"," ","D","E"," ","P","R","E","T">>,
       <<"C","O","T","I","S","A","T","I","O","N">>,
       <<"R","E","G","L","E","M","E","N","T">>,
       <<"A","V","O","I","R">>,
       <<"I","N","T","E","R","E","T","S">>,
       <<"F","R","A","I","S">> >>

transaction_types ==
    << <<"P","A","I","E","M","E","N","T"," ","P","A","R"," ","C","A","R","T","E">>,
       <<"V","I","R","E","M","E","N","T"," ","E","N"," ","V","O","T","R","E"," ","F","A","V","E","U","R">>,
       <<"V","I","R","E","M","E","N","T"," ","E","M","I","S">>,
       <<"V","I","R","E","M","E","N","T">>,
       <<"P","R","E","L","E","V","E","M","E","N","T">>,
       <<"R","E","T","R","A","I","T"," ","A","U"," ","D","I","S","T","R","I","B","U","T","E","U","R">>,
       <<"R","E","M","B","O","U","R","S","E","M","E","N","T"," ","D","E"," ","P","R","E","T">>,
       <<"C","O","T","I","S","A","T","I","O","N">>,
       <<"R","E","G","L","E","M","E","N","T">>,
       <<"A","V","O","I","R">>,
       <<"I","N","T","E","R","E","T","S">>,
       <<"F","R","A","I","S">> >>

\* the index of the first type that the upper-cased description starts
\* with, 0 when there is none
FirstType(description) ==
    IF \E t \in 1..Len(transaction_types) :
           str_startswith(str_upper(description), transaction_types[t])
    THEN CHOOSE t \in 1..Len(transaction_types) :
             /\ str_startswith(str_upper(description), transaction_types[t])
             /\ \A o \in 1..(t - 1) :
                   ~str_startswith(str_upper(description), transaction_types[o])
    ELSE 0

\* the name after a card payment prefix: a first part that starts with X is
\* left out when another part follows
WithoutCardReference(name, name_parts) ==
    IF name_parts # <<>> /\ str_startswith(name_parts[1], <<"X">>) /\ Len(name_parts) > 1
    THEN str_join(<<" ">>, Tail(name_parts))
    ELSE name

\* the name after the type t_type
NameAfter(t_type, name) ==
    IF t_type = <<"P","A","I","E","M","E","N","T"," ","P","A","R"," ","C","A","R","T","E">> THEN WithoutCardReference(name, str_words(name))
    ELSE name

\* name[:50] kept whole
LimitName_whole(name) == IF name # <<>> THEN name ELSE <<"-">>

\* name[:50] if name else "-"
LimitName(name) ==
    IF name # <<>> THEN SubSeq(name, 1, IF Len(name) < 50 THEN Len(name) ELSE 50)
    ELSE <<"-">>

\* the result for a description whose spaces are collapsed and whose first
\* type has the index t; upper() leaves the length of the modelled texts as
\* it is
TypeAndName(description, t) ==
    IF t = 0 THEN [type |-> <<"A","U","T","R","E">>, name |-> LimitName(description)]
    ELSE [type |-> transaction_types[t],
          name |-> LimitName(NameAfter(transaction_types[t],
                       str_strip(SubSeq(description, Len(transaction_types[t]) + 1,
                                        Len(description)))))]

_parse_description(description) ==
    TypeAndName(CollapseSpaces(description), FirstType(CollapseSpaces(description)))

(***************************************************************************)
(* CSVImporter.import_file                                                 *)
(***************************************************************************)
RequiredCols(config) ==
    IF "amount_column" \in DOMAIN config
    THEN <<config.date_column, config.description_column, config.amount_column>>
    ELSE <<config.date_column, config.description_column,
           config.debit_column, config.credit_column>>

\* the flexible match of a required column with an available one
FlexibleMatch(req_lower, avail_lower) ==
    \/ str_in(<<"d","a","t","e">>, req_lower) /\ str_in(<<"d","a","t","e">>, avail_lower)
    \/ str_in(<<"l","i","b","e","l","l">>, req_lower) /\ str_in(<<"l","i","b","e","l","l">>, avail_lower)
    \/ str_in(<<"d">>, req_lower) /\ str_in(<<"d">>, avail_lower) /\ str_in(<<"e","u","r","o","s">>, avail_lower)
    \/ str_in(<<"c","r">>, req_lower) /\ str_in(<<"c","r">>, avail_lower) /\ str_in(<<"e","u","r","o","s">>, avail_lower)
    \/ str_in(<<"m","o","n","t","a","n","t">>, req_lower) /\ str_in(<<"m","o","n","t","a","n","t">>, avail_lower)

RECURSIVE ColMapping(_, _, _)
\* col_mapping: the exact name when available, else the first available
\* column that matches flexibly, else no entry
ColMapping(mapping, required_cols, available) ==
    IF required_cols = <<>> THEN mapping
    ELSE LET required_col == Head(required_cols)
             fuzzy == {i \in 1..Len(available) :
                          FlexibleMatch(str_lower(required_col), str_lower(available[i]))}
             next == IF \E i \in 1..Len(available) : available[i] = required_col
                     THEN dict_set(mapping, required_col, required_col)
                     ELSE IF fuzzy # {}
                     THEN dict_set(mapping, required_col,
                                   available[CHOOSE i \in fuzzy : \A j \in fuzzy : i <= j])
                     ELSE mapping
         IN  ColMapping(next, Tail(required_cols), available)

\* the column check on the first row
ResolveColumns(config, first_row) ==
    IF dict_has(first_row, None)
    THEN [error |-> "AttributeError", mapping |-> <<>>, expected |-> <<>>, found |-> <<>>]
    ELSE LET available_cols == strip_keys(<<>>, first_row)
             required_cols == RequiredCols(config)
             col_mapping == ColMapping(<<>>, required_cols, dict_keys(available_cols))
             missing_cols == SelectSeq(required_cols, LAMBDA c : ~dict_has(col_mapping, c))
         IN  IF missing_cols # <<>>
             THEN [error |-> "Colonnes manquantes dans le CSV", mapping |-> col_mapping,
                   expected |-> required_cols, found |-> dict_keys(available_cols)]
             ELSE [error |-> "", mapping |-> col_mapping,
                   expected |-> <<>>, found |-> <<>>]

Warning(row, text, count) == [row |-> row, text |-> text, count |-> count]

\* the value a row holds for a configured column, through col_mapping
Cell(col_mapping, clean_row, column) ==
    dict_get(clean_row, dict_get(col_mapping, column, column), <<>>)

\* DebitCredit that gives a debit its own sign
DebitCredit_unsigned(debit, credit) ==
    IF DecPositive(credit) THEN DecSub(credit, debit) ELSE debit

\* the amount of a row: one signed column, or credit - debit
DebitCredit(debit, credit) ==
    IF DecPositive(credit) THEN DecSub(credit, debit) ELSE DecNeg(debit)

RowAmount(config, col_mapping, clean_row) ==
    IF "amount_column" \in DOMAIN config
    THEN _clean_amount(Cell(col_mapping, clean_row, config.amount_column))
    ELSE DebitCredit(_clean_amount(Cell(col_mapping, clean_row, config.debit_column)),
                     _clean_amount(Cell(col_mapping, clean_row, config.credit_column)))

\* CheckDuplicate without the lookup in the store
CheckDuplicate_unchecked(table, usedb, acc, date, description, amount) ==
    [acc EXCEPT !.transactions = Append(@, Transaction(date, description, amount))]

\* CheckDuplicate with the rows accepted so far counted as stored
CheckDuplicate_batch(table, usedb, acc, date, description, amount) ==
    IF usedb /\ (\/ get_duplicate_check(table, date, description, amount) # 0
                 \/ \E i \in 1..Len(acc.transactions) :
                        /\ acc.transactions[i].date = date
                        /\ acc.transactions[i].description = description
                        /\ DecEq(acc.transactions[i].amount, amount))
    THEN [acc EXCEPT !.duplicates_skipped = @ + 1]
    ELSE [acc EXCEPT !.transactions = Append(@, Transaction(date, description, amount))]

\* the row is kept unless it repeats a stored transaction
CheckDuplicate(table, usedb, acc, date, description, amount) ==
    IF usedb /\ get_duplicate_check(table, date, description, amount) # 0
    THEN [acc EXCEPT !.duplicates_skipped = @ + 1]
    ELSE [acc EXCEPT !.transactions = Append(@, Transaction(date, description, amount))]

\* the row from its description on, the date being parsed
WithDate(config, col_mapping, clean_row, idx, table, usedb, acc, date, desc_cell) ==
    IF desc_cell = None THEN [acc EXCEPT !.error = "AttributeError"]
    ELSE IF str_strip(desc_cell) = <<>>
    THEN [acc EXCEPT !.warnings = Append(@, Warning(idx, "Empty description, skipping", 0))]
    ELSE CheckDuplicate(table, usedb, acc, date, str_strip(desc_cell),
                        RowAmount(config, col_mapping, clean_row))

\* the row from its date on, the keys being stripped
WithCleanRow(config, col_mapping, clean_row, idx, table, usedb, acc, date_cell) ==
    IF date_cell = None THEN [acc EXCEPT !.error = "AttributeError"]
    ELSE IF ~_parse_date(str_strip(date_cell)).ok
    THEN [acc EXCEPT !.warnings = Append(@, Warning(idx, "Cannot parse date", 0))]
    ELSE WithDate(config, col_mapping, clean_row, idx, table, usedb, acc,
                  _parse_date(str_strip(date_cell)).value,
                  Cell(col_mapping, clean_row, config.description_column))

\* one iteration of the row loop; acc holds transactions, warnings,
\* duplicates_skipped and the exception that left the loop, if any
ProcessRow(config, col_mapping, row, idx, table, usedb, acc) ==
    IF dict_has(row, None) THEN [acc EXCEPT !.error = "AttributeError"]
    ELSE WithCleanRow(config, col_mapping, strip_keys(<<>>, row), idx, table, usedb, acc,
                      Cell(col_mapping, strip_keys(<<>>, row), config.date_column))

RECURSIVE ProcessRows(_, _, _, _, _, _, _)
\* for idx, row in enumerate(rows, start=1): every row is checked against
\* the table as it is when the loop starts
ProcessRows(config, col_mapping, rows, idx, table, usedb, acc) ==
    IF idx > Len(rows) \/ acc.error # "" THEN acc
    ELSE ProcessRows(config, col_mapping, rows, idx + 1, table, usedb,
                     ProcessRow(config, col_mapping, rows[idx], idx, table, usedb, acc))

\* what a call gives back: outcome "raise" with the error, "return2" for
\* the pair (transactions, warnings), "return3" for the triple with
\* duplicates_skipped; db is the database the call leaves
Raise(db, error, expected, found) ==
    [outcome |-> "raise", error |-> error, expected |-> expected, found |-> found,
     transactions |-> <<>>, warnings |-> <<>>, duplicates_skipped |-> 0, db |-> db]

Return(outcome, db, transactions, warnings, duplicates_skipped) ==
    [outcome |-> outcome, error |-> "", expected |-> <<>>, found |-> <<>>,
     transactions |-> transactions, warnings |-> warnings,
     duplicates_skipped |-> duplicates_skipped, db |-> db]

\* WithSummary with one entry per skipped duplicate
WithSummary_each(warnings, duplicates_skipped) ==
    warnings \o [i \in 1..duplicates_skipped |->
                    Warning(0, "transaction(s) dupliquee(s) ignoree(s)", 1)]

\* the summary appended after the loop
WithSummary(warnings, duplicates_skipped) ==
    IF duplicates_skipped > 0
    THEN Append(warnings, Warning(0, "transaction(s) dupliquee(s) ignoree(s)", duplicates_skipped))
    ELSE warnings

\* the end of import_file: the inserts, outside the try block
AfterSave(acc, saved) ==
    IF saved.error # "" THEN Raise([saved EXCEPT !.error = ""], saved.error, <<>>, <<>>)
    ELSE Return("return3", saved, acc.transactions,
                WithSummary(acc.warnings, acc.duplicates_skipped), acc.duplicates_skipped)

\* import_file after the row loop
AfterRows(usedb, db, acc) ==
    IF acc.error # "" THEN Raise(db, acc.error, <<>>, <<>>)
    ELSE AfterSave(acc, IF usedb THEN InsertAll(db, acc.transactions) ELSE db)

\* import_file after the column check
AfterColumns(config, usedb, db, rows, cols) ==
    IF cols.error # "" THEN Raise(db, cols.error, cols.expected, cols.found)
    ELSE AfterRows(usedb, db,
                   ProcessRows(config, cols.mapping, rows, 1, db.table, usedb,
                               [transactions |-> <<>>, warnings |-> <<>>,
                                duplicates_skipped |-> 0, error |-> ""]))

\* import_file after _parse_csv
AfterParse(config, usedb, db, parsed) ==
    IF parsed.error # "" THEN Raise(db, parsed.error, <<>>, <<>>)
    ELSE IF parsed.rows = <<>>
    THEN Return("return2", db, <<>>, <<Warning(0, "No transactions found in file", 0)>>, 0)
    ELSE AfterColumns(config, usedb, db, parsed.rows,
                      ResolveColumns(config, parsed.rows[1]))

\* import_file(filepath, db), db None when ~usedb
import_file(config, file, usedb, db) ==
    IF ~file.exists THEN Raise(db, "FileNotFoundError", <<>>, <<>>)
    ELSE AfterParse(config, usedb, db, _parse_csv(config, file))

(***************************************************************************)
(* Categorizer                                                             *)
(***************************************************************************)
AUTO_RULES ==
    <<
      [category |-> "Alimentation",
       keywords |-> << <<"l","i","d","l">>,
                         <<"c","a","r","r","e","f","o","u","r">>,
                         <<"i","n","t","e","r","m","a","r","c","h","e">>,
                         <<"r","e","s","t","a","u","r","a","n","t">>,
                         <<"m","c"," ","d","o","n","a","l","d">>,
                         <<"p","i","z","z","a">>,
                         <<"b","o","u","l","a","n","g","e","r","i","e">>,
                         <<"b","o","u","c","h","e","r","i","e">> >>],
      [category |-> "Transport",
       keywords |-> << <<"e","s","s","e","n","c","e">>,
                         <<"p","a","r","k","i","n","g">>,
                         <<"s","n","c","f">>,
                         <<"b","u","s">>,
                         <<"m","e","t","r","o">>,
                         <<"u","b","e","r">>,
                         <<"t","a","x","i">>,
                         <<"a","u","t","o","l","i","b">>,
                         <<"c","a","r","b","u","r","a","n","t">> >>],
      [category |-> "Logement",
       keywords |-> << <<"l","o","y","e","r">>,
                         <<"i","m","m","o","b","i","l","i","e","r">>,
                         <<"p","r","o","p","r","i","o">>,
                         <<"s","y","n","d","i","c">> >>],
      [category |-> "Internet/Téléphone",
       keywords |-> << <<"e","d","f">>,
                         <<"o","r","a","n","g","e">>,
                         <<"w","a","t","e","r">>,
                         <<"e","a","u">>,
                         <<"e","l","e","c","t","r","i","c","i","t","e">>,
                         <<"g","a","z">>,
                         <<"i","n","t","e","r","n","e","t">>,
                         <<"t","é","l","é","p","h","o","n","e">>,
                         <<"s","f","r">>,
                         <<"b","o","u","y","g","u","e","s">> >>],
      [category |-> "Loisirs",
       keywords |-> << <<"c","i","n","e","m","a">>,
                         <<"t","h","e","a","t","r","e">>,
                         <<"s","p","o","t","i","f","y">>,
                         <<"n","e","t","f","l","i","x">>,
                         <<"j","e","u","x">>,
                         <<"f","l","i","c","k","r">>,
                         <<"s","t","e","a","m">>,
                         <<"p","l","a","y","s","t","a","t","i","o","n">> >>],
      [category |-> "Santé",
       keywords |-> << <<"p","h","a","r","m","a","c","i","e">>,
                         <<"d","o","c","t","e","u","r">>,
                         <<"m","e","d","i","c","a","l">>,
                         <<"s","a","n","t","e">>,
                         <<"d","e","n","t","i","s","t","e">> >>],
      [category |-> "Éducation",
       keywords |-> << <<"e","c","o","l","e">>,
                         <<"u","n","i","v","e","r","s","i","t","e">>,
                         <<"f","o","r","m","a","t","i","o","n">>,
                         <<"c","o","u","r","s">> >>],
      [category |-> "Salaire",
       keywords |-> << <<"s","a","l","a","i","r","e">>,
                         <<"v","i","r","e","m","e","n","t"," ","s","a","l","a","i","r","e">>,
                         <<"p","a","y","e">>,
                         <<"t","r","a","i","t","e","m","e","n","t">> >>]
    >>

\* auto_categorize that looks for the keywords in the description as written
auto_categorize_cased(description) ==
    LET hit(c) == {k \in 1..Len(AUTO_RULES[c].keywords) :
                      str_in(str_lower(AUTO_RULES[c].keywords[k]), description)}
        cats == {c \in 1..Len(AUTO_RULES) : hit(c) # {}}
    IN  IF cats = {} THEN "Autres"
        ELSE AUTO_RULES[CHOOSE c \in cats : \A o \in cats : c <= o].category

\* Categorizer.auto_categorize: the category of the first keyword, in the
\* order of AUTO_RULES, that occurs in the lower-cased description
auto_categorize(description) ==
    LET lowered == str_lower(description)
        hit(c) == {k \in 1..Len(AUTO_RULES[c].keywords) :
                      str_in(str_lower(AUTO_RULES[c].keywords[k]), lowered)}
        cats == {c \in 1..Len(AUTO_RULES) : hit(c) # {}}
    IN  IF cats = {} THEN "Autres"
        ELSE AUTO_RULES[CHOOSE c \in cats : \A o \in cats : c <= o].category

\* update_transaction_category that fills in a missing category only
update_transaction_category_unset(table, transaction_id, category) ==
    [table |-> [i \in 1..Len(table) |->
                    IF table[i].id = transaction_id /\ table[i].category = NULL
                    THEN [table[i] EXCEPT !.category = category]
                    ELSE table[i]],
     ok |-> \E i \in 1..Len(table) : table[i].id = transaction_id]

\* Database.update_transaction_category: UPDATE ... WHERE id = ?, and
\* whether a row was updated
update_transaction_category(table, transaction_id, category) ==
    [table |-> [i \in 1..Len(table) |->
                    IF table[i].id = transaction_id
                    THEN [table[i] EXCEPT !.category = category]
                    ELSE table[i]],
     ok |-> \E i \in 1..Len(table) : table[i].id = transaction_id]

\* Categorizer.categorize_transaction, with a database
categorize_transaction(table, transaction_id, category) ==
    update_transaction_category(table, transaction_id, category)

\* get_uncategorized without the WHERE clause
get_uncategorized_all(table) == table

\* Categorizer.get_uncategorized: the rows WHERE category IS NULL.  The
\* ORDER BY of the query is left out: its rows have distinct ids and each is
\* updated on its own.
get_uncategorized(table) == SelectSeq(table, LAMBDA t : t.category = NULL)

RECURSIVE CategorizeEach(_, _, _)
\* the loop of categorize_all_auto over the uncategorized transactions
CategorizeEach(table, uncategorized, count) ==
    IF uncategorized = <<>> THEN [table |-> table, count |-> count]
    ELSE LET transaction == Head(uncategorized)
             done == categorize_transaction(table, transaction.id,
                                            auto_categorize(transaction.description))
         IN  CategorizeEach(done.table, Tail(uncategorized),
                            IF done.ok THEN count + 1 ELSE count)

\* Categorizer.categorize_all_auto, with a database
categorize_all_auto(table) == CategorizeEach(table, get_uncategorized(table), 0)

(***************************************************************************)
(* Categorizer: the default taxonomy.                                      *)
(***************************************************************************)
\* parent categories for expenses, in the order of the dict
DEFAULT_CATEGORIES_EXPENSES ==
    << [parent |-> "Logement",
        subcategories |-> << "Loyer/Hypothèque",
                             "Charges",
                             "Électricité/Gaz/Eau",
                             "Internet/Téléphone",
                             "Entretien/Réparations" >>],
       [parent |-> "Alimentation",
        subcategories |-> << "Courses",
                             "Restaurants",
                             "Café/Snacks",
                             "Livraison de repas" >>],
       [parent |-> "Transport",
        subcategories |-> << "Carburant",
                             "Transports en commun",
                             "Parking",
                             "Entretien voiture",
                             "Péages",
                             "Taxi/VTC" >>],
       [parent |-> "Santé",
        subcategories |-> << "Médecin/Dentiste",
                             "Pharmacie",
                             "Lunettes/Lentilles",
                             "Sport/Fitness" >>],
       [parent |-> "Loisirs",
        subcategories |-> << "Cinéma/Théâtre",
                             "Livres/Musique",
                             "Jeux vidéo",
                             "Hobbies",
                             "Abonnements (streaming, etc.)" >>],
       [parent |-> "Vêtements et accessoires",
        subcategories |-> << "Vêtements",
                             "Chaussures",
                             "Bijoux",
                             "Sacs" >>],
       [parent |-> "Éducation",
        subcategories |-> << "Cours",
                             "Formation",
                             "Livres scolaires",
                             "Frais d'inscription" >>],
       [parent |-> "Enfants",
        subcategories |-> << "Garde d'enfants",
                             "École",
                             "Activités",
                             "Jouets" >>],
       [parent |-> "Animaux",
        subcategories |-> << "Nourriture",
                             "Vétérinaire",
                             "Accessoires" >>],
       [parent |-> "Beauté et bien-être",
        subcategories |-> << "Coiffeur",
                             "Cosmétiques",
                             "Massage",
                             "Soins" >>],
       [parent |-> "Services et abonnements",
        subcategories |-> << "Services numériques",
                             "Adhésions" >>],
       [parent |-> "Assurances",
        subcategories |-> << "Assurance auto",
                             "Assurance habitation",
                             "Assurance santé",
                             "Assurance vie",
                             "Assurance prêt",
                             "Assurance responsabilité civile",
                             "Autres assurances" >>],
       [parent |-> "Impôts et cotisations",
        subcategories |-> << "Impôts",
                             "Cotisations sociales" >>],
       [parent |-> "Cadeaux et dons",
        subcategories |-> << "Cadeaux",
                             "Charité",
                             "Donations" >>],
       [parent |-> "Dépenses exceptionnelles",
        subcategories |-> << "Voyages",
                             "Gros achats",
                             "Réparations importantes" >>] >>

\* parent categories for income, in the order of the dict
DEFAULT_CATEGORIES_INCOME ==
    << [parent |-> "Salaire",
        subcategories |-> << "Salaire principal",
                             "Primes",
                             "Bonus",
                             "Commissions" >>],
       [parent |-> "Revenus professionnels",
        subcategories |-> << "Freelance",
                             "Activité indépendante",
                             "Honoraires" >>],
       [parent |-> "Placements",
        subcategories |-> << "Intérêts",
                             "Dividendes",
                             "Plus-values" >>],
       [parent |-> "Aides sociales",
        subcategories |-> << "Allocations familiales",
                             "Allocation chômage",
                             "Revenu minimum",
                             "RSA",
                             "Aides au logement",
                             "Autres aides" >>],
       [parent |-> "Autres revenus",
        subcategories |-> << "Remboursements",
                             "Ventes d'objets",
                             "Location" >>],
       [parent |-> "Revenus exceptionnels",
        subcategories |-> << "Héritage",
                             "Bonus exceptionnel" >>] >>

(***************************************************************************)
(* Database: the categories and categorization_rules tables.  A category   *)
(* row is [id, name, parent_id], parent_id NULL_ID for a top-level one;    *)
(* a rule row is [id, keyword, category_id].  The description and color    *)
(* columns, which no operation here reads, are left out.  Foreign keys are *)
(* declared but not enforced: the connection never turns them on.  cdb is  *)
(* the two tables with their AUTOINCREMENT counters.                       *)
(***************************************************************************)
\* SQL NULL in an INTEGER column of ids, which start at 1
NULL_ID == 0

\* SELECT id FROM categories WHERE name = ?: the id, 0 for no row
CategoryId(rows, name) ==
    IF \E i \in 1..Len(rows) : rows[i].name = name
    THEN rows[CHOOSE i \in 1..Len(rows) : rows[i].name = name].id
    ELSE 0

\* SELECT id FROM categories WHERE name = ? AND parent_id IS NULL / = ?
CategoryIdUnder(rows, name, parent_id) ==
    IF \E i \in 1..Len(rows) : rows[i].name = name /\ rows[i].parent_id = parent_id
    THEN rows[CHOOSE i \in 1..Len(rows) :
                 rows[i].name = name /\ rows[i].parent_id = parent_id].id
    ELSE 0

\* INSERT INTO categories (name, parent_id): ok = FALSE stands for the
\* IntegrityError of name TEXT UNIQUE, which leaves the counter as it was
InsertCategory(cdb, name, parent_id) ==
    IF CategoryId(cdb.categories, name) # 0 THEN [ok |-> FALSE, cdb |-> cdb]
    ELSE [ok |-> TRUE,
          cdb |-> [cdb EXCEPT
                     !.categories = Append(@, [id |-> cdb.category_sequence + 1,
                                               name |-> name, parent_id |-> parent_id]),
                     !.category_sequence = @ + 1]]

\* Categorizer.add_category
add_category(cdb, category_name) == InsertCategory(cdb, category_name, NULL_ID)

\* delete_category that also deletes the children of the category
delete_category_cascade(cdb, category_name) ==
    [ok |-> CategoryId(cdb.categories, category_name) # 0,
     cdb |-> [cdb EXCEPT !.categories =
                 SelectSeq(@, LAMBDA c :
                     /\ c.name # category_name
                     /\ (CategoryId(cdb.categories, category_name) = 0
                         \/ c.parent_id # CategoryId(cdb.categories, category_name)))]]

\* Categorizer.delete_category: DELETE FROM categories WHERE name = ?
delete_category(cdb, category_name) ==
    [ok |-> CategoryId(cdb.categories, category_name) # 0,
     cdb |-> [cdb EXCEPT !.categories = SelectSeq(@, LAMBDA c : c.name # category_name)]]

\* add_subcategory that takes a missing parent as no parent
add_subcategory_orphan(cdb, subcategory_name, parent_category_name) ==
    IF CategoryId(cdb.categories, parent_category_name) = 0
    THEN InsertCategory(cdb, subcategory_name, NULL_ID)
    ELSE InsertCategory(cdb, subcategory_name,
                        CategoryId(cdb.categories, parent_category_name))

\* Categorizer.add_subcategory
add_subcategory(cdb, subcategory_name, parent_category_name) ==
    IF CategoryId(cdb.categories, parent_category_name) = 0
    THEN [ok |-> FALSE, cdb |-> cdb]
    ELSE InsertCategory(cdb, subcategory_name,
                        CategoryId(cdb.categories, parent_category_name))

\* INSERT INTO categorization_rules (keyword, category_id)
InsertRule(cdb, keyword, category_id) ==
    [ok |-> TRUE,
     cdb |-> [cdb EXCEPT
                !.rules = Append(@, [id |-> cdb.rule_sequence + 1,
                                     keyword |-> keyword, category_id |-> category_id]),
                !.rule_sequence = @ + 1]]

\* add_rule that stores the keyword as written
add_rule_cased(cdb, keyword, category) ==
    IF CategoryId(cdb.categories, category) = 0
    THEN InsertRule(InsertCategory(cdb, category, NULL_ID).cdb, keyword,
                    cdb.category_sequence + 1)
    ELSE InsertRule(cdb, keyword, CategoryId(cdb.categories, category))

\* Categorizer.add_rule: the category is created when no category has the name
add_rule(cdb, keyword, category) ==
    IF CategoryId(cdb.categories, category) = 0
    THEN InsertRule(InsertCategory(cdb, category, NULL_ID).cdb, str_lower(keyword),
                    cdb.category_sequence + 1)
    ELSE InsertRule(cdb, str_lower(keyword), CategoryId(cdb.categories, category))

\* Categorizer.get_rules: the rules joined with their categories, as the set
\* of the rows of the list; ORDER BY c.name, r.keyword leaves the order of
\* rules of one category and keyword open, and no caller reads the order
get_rules(cdb) ==
    {[id |-> cdb.rules[r].id, keyword |-> cdb.rules[r].keyword,
      category |-> cdb.categories[c].name] :
        <<r, c>> \in {p \in (1..Len(cdb.rules)) \X (1..Len(cdb.categories)) :
                         cdb.rules[p[1]].category_id = cdb.categories[p[2]].id}}

\* Categorizer.delete_rule: DELETE FROM categorization_rules WHERE id = ?;
\* the result is True whether or not a row was deleted
delete_rule(cdb, rule_id) ==
    [ok |-> TRUE,
     cdb |-> [cdb EXCEPT !.rules = SelectSeq(@, LAMBDA r : r.id # rule_id)]]

RECURSIVE SeedSubcategories(_, _, _)
\* the inner loop of init_categories: a failing insert is passed over
SeedSubcategories(cdb, parent_id, subcategories) ==
    IF subcategories = <<>> THEN cdb
    ELSE SeedSubcategories(InsertCategory(cdb, Head(subcategories), parent_id).cdb,
                           parent_id, Tail(subcategories))

RECURSIVE SeedCategories(_, _)
\* the outer loop of init_categories: when the insert of the parent fails,
\* its subcategories are passed over with it
SeedCategories(cdb, defaults) ==
    IF defaults = <<>> THEN cdb
    ELSE IF CategoryId(cdb.categories, Head(defaults).parent) # 0
    THEN SeedCategories(cdb, Tail(defaults))
    ELSE SeedCategories(
             SeedSubcategories(InsertCategory(cdb, Head(defaults).parent, NULL_ID).cdb,
                               cdb.category_sequence + 1, Head(defaults).subcategories),
             Tail(defaults))

\* Categorizer.init_categories: nothing is done when a top-level category exists
init_categories(cdb) ==
    IF \E i \in 1..Len(cdb.categories) : cdb.categories[i].parent_id = NULL_ID
    THEN cdb
    ELSE SeedCategories(SeedCategories(cdb, DEFAULT_CATEGORIES_EXPENSES),
                        DEFAULT_CATEGORIES_INCOME)

RECURSIVE EnsureSubcategories(_, _, _)
\* the inner loop of ensure_default_categories
EnsureSubcategories(cdb, parent_id, subcategories) ==
    IF subcategories = <<>> THEN cdb
    ELSE IF CategoryIdUnder(cdb.categories, Head(subcategories), parent_id) # 0
    THEN EnsureSubcategories(cdb, parent_id, Tail(subcategories))
    ELSE EnsureSubcategories(InsertCategory(cdb, Head(subcategories), parent_id).cdb,
                             parent_id, Tail(subcategories))

RECURSIVE EnsureCategories(_, _)
\* the outer loop of ensure_default_categories: a parent that is missing as
\* a top-level category is inserted; when that insert fails, its
\* subcategories are passed over with it
EnsureCategories(cdb, defaults) ==
    IF defaults = <<>> THEN cdb
    ELSE IF CategoryIdUnder(cdb.categories, Head(defaults).parent, NULL_ID) # 0
    THEN EnsureCategories(
             EnsureSubcategories(cdb,
                                 CategoryIdUnder(cdb.categories, Head(defaults).parent, NULL_ID),
                                 Head(defaults).subcategories),
             Tail(defaults))
    ELSE IF CategoryId(cdb.categories, Head(defaults).parent) # 0
    THEN EnsureCategories(cdb, Tail(defaults))
    ELSE EnsureCategories(
             EnsureSubcategories(InsertCategory(cdb, Head(defaults).parent, NULL_ID).cdb,
                                 cdb.category_sequence + 1, Head(defaults).subcategories),
             Tail(defaults))

\* ensure_default_categories that inserts every default anew
ensure_default_categories_reseed(cdb) ==
    SeedCategories(SeedCategories(cdb, DEFAULT_CATEGORIES_EXPENSES),
                   DEFAULT_CATEGORIES_INCOME)

\* Categorizer.ensure_default_categories
ensure_default_categories(cdb) ==
    EnsureCategories(EnsureCategories(cdb, DEFAULT_CATEGORIES_EXPENSES),
                     DEFAULT_CATEGORIES_INCOME)

(***************************************************************************)
(* The files the importer is given.                                        *)
(***************************************************************************)
HeaderLine == <<<<"D","a","t","e">>, <<"L","i","b","e","l","l","é">>, <<"D","é","b","i","t"," ","e","u","r","o","s">>, <<"C","r","é","d","i","t"," ","e","u","r","o","s">>>>

\* a header line without the description and amount columns of the profile
ForeignHeaderLine == <<<<"D","a","t","e">>, <<"L","a","b","e","l">>, <<"D","e","b","i","t">>, <<"C","r","e","d","i","t">>>>

MetadataLine == <<<<"R","e","l","e","v","e"," ","d","e"," ","c","o","m","p","t","e">>, <<"0","1","2","3","4","5">>>>

RowLidl == <<<<"0","1","/","0","1","/","2","0","2","5">>, <<"P","A","I","E","M","E","N","T"," ","L","I","D","L">>, <<"0">>, <<"5","0",",","0","0">>>>

RowEdf == <<<<"0","2","/","0","1","/","2","0","2","5">>, <<" ","E","d","f"," ">>, <<"2","5",".","5","0">>, <<"0">>>>

RowBadDate == <<<<"3","2","/","0","1","/","2","0","2","5">>, <<"P","A","I","E","M","E","N","T"," ","L","I","D","L">>, <<"5">>, <<"0">>>>

RowNoDescription == <<<<"0","1","/","0","1","/","2","0","2","5">>, <<" "," ">>, <<"0">>, <<"5","0",",","0","0">>>>

RowShort == <<<<"0","2","/","0","1","/","2","0","2","5">>>>

RowLong == <<<<"0","2","/","0","1","/","2","0","2","5">>, <<" ","E","d","f"," ">>, <<"2","5",".","5","0">>, <<"0">>, <<"x">>>>

RowNaN == <<<<"0","3","/","0","1","/","2","0","2","5">>, <<"T","A","X","I">>, <<"n","a","n">>, <<"0">>>>

RowBlank == <<<<>>, <<>>, <<>>, <<>>>>

\* what a file starts with: nothing, the header, the header after a
\* preamble, a foreign header, the header and a row of empty cells
Heads ==
    { <<>>,
      <<HeaderLine>>,
      <<MetadataLine, HeaderLine>>,
      <<ForeignHeaderLine>>,
      <<HeaderLine, RowBlank>> }

RowPool == {RowLidl, RowEdf, RowBadDate, RowNoDescription, RowShort, RowLong, RowNaN}

\* data rows allowed after a head: MaxRows after the plain header, one otherwise
RowLimit(head) == IF head = <<HeaderLine>> THEN MaxRows ELSE 1

\* the statements imported while transactions are categorized
StatementRows == {RowLidl, RowEdf}

\* categories a user assigns by hand
ManualCategories == {"Transport"}

(***************************************************************************)
(* State.                                                                  *)
(***************************************************************************)
VARIABLES
    file,       \* the CSV file at the path given to import_file
    table,      \* the rows of the transactions table, in insertion order
    sequence,   \* the AUTOINCREMENT counter of the transactions table
    categories,         \* the rows of the categories table, in insertion order
    category_sequence,  \* the AUTOINCREMENT counter of the categories table
    rules,              \* the rows of the categorization_rules table
    rule_sequence,      \* the AUTOINCREMENT counter of the categorization_rules table
    arg,        \* the argument of a call of a function that reads no table
    last        \* the last call: its arguments, what it returned or raised,
                \* and the table before it; again: the call repeats a
                \* completed import of the same file into the store; swept:
                \* categorize_all_auto has run since the last import

vars == <<file, table, sequence, categories, category_sequence, rules, rule_sequence,
          arg, last>>

\* the category store
catvars == <<categories, category_sequence, rules, rule_sequence>>

NoCall ==
    [op |-> "none", usedb |-> FALSE, again |-> FALSE, swept |-> FALSE,
     outcome |-> "none", error |-> "", expected |-> <<>>, found |-> <<>>,
     transactions |-> <<>>, warnings |-> <<>>, duplicates_skipped |-> 0,
     id |-> 0, category |-> NULL, ok |-> FALSE, count |-> 0, before |-> <<>>,
     name |-> "", parent |-> "", keyword |-> <<>>, result |-> <<>>,
     before_categories |-> <<>>, before_rules |-> <<>>]

FileLines(f) == [exists |-> f.exists, lines |-> f.head \o f.rows]

Init ==
    /\ file = [exists |-> FALSE, head |-> <<>>, rows |-> <<>>]
    /\ table = <<>>
    /\ sequence = 0
    /\ categories = <<>>
    /\ category_sequence = 0
    /\ rules = <<>>
    /\ rule_sequence = 0
    /\ arg = <<>>
    /\ last = NoCall

\* the environment writes a file that holds only its head
CreateFile(head) ==
    /\ file' = [exists |-> TRUE, head |-> head, rows |-> <<>>]
    /\ last' = [NoCall EXCEPT !.swept = last.swept]
    /\ UNCHANGED <<table, sequence, catvars, arg>>

\* the environment adds a data row to the file
AppendRow(row) ==
    /\ file.exists
    /\ Len(file.rows) < RowLimit(file.head)
    /\ file' = [file EXCEPT !.rows = Append(@, row)]
    /\ last' = [NoCall EXCEPT !.swept = last.swept]
    /\ UNCHANGED <<table, sequence, catvars, arg>>

\* the environment removes the file
DeleteFile ==
    /\ file.exists
    /\ file' = [exists |-> FALSE, head |-> <<>>, rows |-> <<>>]
    /\ last' = [NoCall EXCEPT !.swept = last.swept]
    /\ UNCHANGED <<table, sequence, catvars, arg>>

\* the call record of an import_file call that gave r
ImportCall(usedb, r) ==
    [NoCall EXCEPT
        !.op = "import_file", !.usedb = usedb,
        !.again = /\ usedb /\ last.op = "import_file"
                  /\ last.usedb /\ last.outcome # "raise",
        !.outcome = r.outcome, !.error = r.error,
        !.expected = r.expected, !.found = r.found,
        !.transactions = r.transactions, !.warnings = r.warnings,
        !.duplicates_skipped = r.duplicates_skipped,
        !.before = table]

Imported(usedb, r) ==
    /\ Len(r.db.table) <= MaxStore
    /\ table' = r.db.table
    /\ sequence' = r.db.sequence
    /\ last' = ImportCall(usedb, r)
    /\ UNCHANGED <<file, catvars, arg>>

\* CSVImporter(DEFAULT_CONFIG).import_file(filepath, db), db None when ~usedb
ImportFile(usedb) ==
    Imported(usedb, import_file(DEFAULT_CONFIG, FileLines(file), usedb,
                                [table |-> table, sequence |-> sequence, error |-> ""]))

\* Categorizer(db).categorize_all_auto()
CategorizedAll(r) ==
    /\ table' = r.table
    /\ last' = [NoCall EXCEPT !.op = "categorize_all_auto", !.outcome = "return",
                              !.again = last.swept, !.swept = TRUE,
                              !.count = r.count, !.before = table]
    /\ UNCHANGED <<file, sequence, catvars, arg>>

CategorizeAllAuto == CategorizedAll(categorize_all_auto(table))

\* Categorizer(db).categorize_transaction(transaction_id, category)
Categorized(transaction_id, category, r) ==
    /\ table' = r.table
    /\ last' = [NoCall EXCEPT !.op = "categorize_transaction", !.outcome = "return",
                              !.id = transaction_id, !.category = category,
                              !.ok = r.ok, !.swept = last.swept, !.before = table]
    /\ UNCHANGED <<file, sequence, catvars, arg>>

CategorizeTransaction(transaction_id, category) ==
    Categorized(transaction_id, category,
                categorize_transaction(table, transaction_id, category))

\* the environment writes a statement of one valid row
WriteStatement(row) ==
    /\ file' = [exists |-> TRUE, head |-> <<HeaderLine>>, rows |-> <<row>>]
    /\ last' = [NoCall EXCEPT !.swept = last.swept]
    /\ UNCHANGED <<table, sequence, catvars, arg>>

\* the import pipeline over the generated files
Next ==
    \/ \E head \in Heads : CreateFile(head)
    \/ \E row \in RowPool : AppendRow(row)
    \/ DeleteFile
    \/ \E usedb \in BOOLEAN : ImportFile(usedb)

Spec == Init /\ [][Next]_vars

\* imports of statements and the categorization of the stored transactions
CatNext ==
    \/ \E row \in StatementRows : WriteStatement(row)
    \/ ImportFile(TRUE)
    \/ CategorizeAllAuto
    \/ \E transaction_id \in 1..(MaxStore + 1), category \in ManualCategories :
           CategorizeTransaction(transaction_id, category)

CatSpec == Init /\ [][CatNext]_vars

(***************************************************************************)
(* The category store: calls of the Categorizer on the categories and      *)
(* categorization_rules tables.                                            *)
(***************************************************************************)
\* most ids the categories table gives to the names the calls use
MaxCategoryIds == 2
\* most rows ever inserted into categorization_rules
MaxRules == 1

\* the names the calls use: one that no default has, a default subcategory
\* and a default parent
CategoryNames == {"Perso", "Courses", "Logement"}

RuleKeywords == {<<"A","M","A","Z","O","N">>}

\* a description that holds the keyword and no keyword of AUTO_RULES
RuleDescriptions == {<<"A","c","h","a","t"," ","A","M","A","Z","O","N"," ","p","r","i","m","e">>}

\* the ids given so far to categories named as the calls name them
Spent ==
    category_sequence
      - Cardinality({i \in 1..Len(categories) : categories[i].name \notin CategoryNames})

CategoryDb ==
    [categories |-> categories, category_sequence |-> category_sequence,
     rules |-> rules, rule_sequence |-> rule_sequence]

\* the record of a call on the category store
CategoryCall(op) ==
    [NoCall EXCEPT !.op = op, !.outcome = "return",
                   !.before = table, !.before_categories = categories,
                   !.before_rules = rules]

\* a call that leaves the category store as cdb
CategoryStored(cdb, call) ==
    /\ categories' = cdb.categories
    /\ category_sequence' = cdb.category_sequence
    /\ rules' = cdb.rules
    /\ rule_sequence' = cdb.rule_sequence
    /\ last' = call
    /\ UNCHANGED <<file, table, sequence, arg>>

\* a store that holds one transaction, categorized by hand
CategoryInit ==
    /\ file = [exists |-> FALSE, head |-> <<>>, rows |-> <<>>]
    /\ table = <<[id |-> 1, date |-> <<"2","0","2","5","-","0","1","-","0","1">>, description |-> <<"P","A","I","E","M","E","N","T"," ","L","I","D","L">>,
                  amount |-> Dec(50, 0), category |-> "Logement"]>>
    /\ sequence = 1
    /\ categories = <<>>
    /\ category_sequence = 0
    /\ rules = <<>>
    /\ rule_sequence = 0
    /\ arg = <<>>
    /\ last = NoCall

AddedCategory(category_name, r) ==
    CategoryStored(r.cdb, [CategoryCall("add_category") EXCEPT
                              !.name = category_name, !.ok = r.ok])

\* Categorizer(db).add_category(category_name)
AddCategory(category_name) ==
    /\ Spent < MaxCategoryIds
    /\ AddedCategory(category_name, add_category(CategoryDb, category_name))

AddedSubcategory(subcategory_name, parent_category_name, r) ==
    CategoryStored(r.cdb, [CategoryCall("add_subcategory") EXCEPT
                              !.name = subcategory_name,
                              !.parent = parent_category_name, !.ok = r.ok])

\* Categorizer(db).add_subcategory(subcategory_name, parent_category_name)
AddSubcategory(subcategory_name, parent_category_name) ==
    /\ Spent < MaxCategoryIds
    /\ AddedSubcategory(subcategory_name, parent_category_name,
                        add_subcategory(CategoryDb, subcategory_name, parent_category_name))

DeletedCategory(category_name, r) ==
    CategoryStored(r.cdb, [CategoryCall("delete_category") EXCEPT
                              !.name = category_name, !.ok = r.ok])

\* Categorizer(db).delete_category(category_name)
DeleteCategory(category_name) ==
    DeletedCategory(category_name, delete_category(CategoryDb, category_name))

AddedRule(keyword, category, r) ==
    CategoryStored(r.cdb, [CategoryCall("add_rule") EXCEPT
                              !.keyword = keyword, !.name = category, !.ok = r.ok])

\* Categorizer(db).add_rule(keyword, category)
AddRule(keyword, category) ==
    /\ Spent < MaxCategoryIds
    /\ rule_sequence < MaxRules
    /\ AddedRule(keyword, category, add_rule(CategoryDb, keyword, category))

DeletedRule(rule_id, r) ==
    CategoryStored(r.cdb, [CategoryCall("delete_rule") EXCEPT !.id = rule_id, !.ok = r.ok])

\* Categorizer(db).delete_rule(rule_id)
DeleteRule(rule_id) == DeletedRule(rule_id, delete_rule(CategoryDb, rule_id))

\* Categorizer(db).get_rules()
GetRules ==
    /\ last' = [CategoryCall("get_rules") EXCEPT !.result = get_rules(CategoryDb)]
    /\ UNCHANGED <<file, table, sequence, catvars, arg>>

\* Categorizer(db).init_categories(), as at every start of the application
InitCategories ==
    /\ Spent <= MaxCategoryIds
    /\ CategoryStored(init_categories(CategoryDb), CategoryCall("init_categories"))

\* Categorizer(db).ensure_default_categories()
EnsureDefaultCategories ==
    /\ Spent <= MaxCategoryIds
    /\ CategoryStored(ensure_default_categories(CategoryDb),
                   CategoryCall("ensure_default_categories"))

\* Categorizer(db).auto_categorize(transaction) for a transaction of the
\* given description
AutoCategorizeStored(description) ==
    /\ last' = [CategoryCall("auto_categorize") EXCEPT
                   !.keyword = description, !.result = auto_categorize(description)]
    /\ UNCHANGED <<file, table, sequence, catvars, arg>>

\* the taxonomy: the categories the user adds and deletes, and the defaults
CategoryNext ==
    \/ \E category_name \in CategoryNames : AddCategory(category_name)
    \/ \E subcategory_name \in CategoryNames, parent_category_name \in CategoryNames :
           AddSubcategory(subcategory_name, parent_category_name)
    \/ \E category_name \in CategoryNames : DeleteCategory(category_name)
    \/ InitCategories
    \/ EnsureDefaultCategories

CategorySpec == CategoryInit /\ [][CategoryNext]_vars

\* the rules: the categories and the rules the user adds and deletes, and
\* the categorization of a description
RuleNext ==
    \/ \E category_name \in CategoryNames : AddCategory(category_name)
    \/ \E subcategory_name \in CategoryNames, parent_category_name \in CategoryNames :
           AddSubcategory(subcategory_name, parent_category_name)
    \/ \E category_name \in CategoryNames : DeleteCategory(category_name)
    \/ \E keyword \in RuleKeywords, category \in CategoryNames : AddRule(keyword, category)
    \/ \E rule_id \in 1..(MaxRules + 1) : DeleteRule(rule_id)
    \/ GetRules
    \/ \E description \in RuleDescriptions : AutoCategorizeStored(description)

RuleSpec == CategoryInit /\ [][RuleNext]_vars

(***************************************************************************)
(* auto_categorize as a function of the description alone.                 *)
(***************************************************************************)
\* most words of a description
MaxWords == 2

\* words in several cases: keywords of one category, of two categories, and
\* words that hold no keyword
WordPool == {<<"L","I","D","L">>, <<"T","a","x","i">>, <<"c","o","u","r","s">>, <<"P","a","r","k","i","n","g">>, <<"R","E","S","T","A","U","R","A","N","T">>, <<"E","d","f">>,
             <<"x","y","z">>, <<"A","c","h","a","t">>}

RECURSIVE WordsJoined(_)
\* the descriptions of n words
WordsJoined(n) ==
    IF n = 0 THEN {<<>>}
    ELSE IF n = 1 THEN WordPool
    ELSE {d \o <<" ">> \o w : d \in WordsJoined(n - 1), w \in WordPool}

Descriptions == UNION {WordsJoined(n) : n \in 0..MaxWords}

AutoInit ==
    /\ file = [exists |-> FALSE, head |-> <<>>, rows |-> <<>>]
    /\ table = <<>>
    /\ sequence = 0
    /\ categories = <<>>
    /\ category_sequence = 0
    /\ rules = <<>>
    /\ rule_sequence = 0
    /\ arg \in Descriptions
    /\ last = NoCall

\* Categorizer().auto_categorize(transaction) for a transaction described by arg
AutoCategorize ==
    /\ last' = [NoCall EXCEPT !.op = "auto_categorize", !.outcome = "return",
                              !.keyword = arg, !.result = auto_categorize(arg)]
    /\ UNCHANGED <<file, table, sequence, catvars, arg>>

AutoNext == AutoCategorize

AutoSpec == AutoInit /\ [][AutoNext]_vars

(***************************************************************************)
(* _parse_csv on files whose header line comes after a preamble.           *)
(***************************************************************************)
\* most lines before the header line
MaxPreamble == 2

\* a line of a preamble that gives the date of the export
ExportDateLine == <<<<"D","a","t","e"," ","d","e"," ","l","'","e","x","p","o","r","t">>, <<"0","5","/","0","1","/","2","0","2","5">>>>

BalanceLine == <<<<"S","o","l","d","e">>, <<"1"," ","3","3","0",",","5","5">>>>

PreambleLines == {MetadataLine, ExportDateLine, BalanceLine}

RECURSIVE LinesUpTo(_, _)
\* the sequences of at most n lines of the pool
LinesUpTo(pool, n) ==
    IF n = 0 THEN {<<>>}
    ELSE LinesUpTo(pool, n - 1)
         \cup {ls \o <<l>> : ls \in {s \in LinesUpTo(pool, n - 1) : Len(s) = n - 1},
                             l \in pool}

\* the data rows after the header line, rows of empty cells included
ParseRows == {RowLidl, RowEdf, RowBlank}

ParseInit ==
    /\ \E preamble \in LinesUpTo(PreambleLines, MaxPreamble),
          rows \in LinesUpTo(ParseRows, MaxRows) :
          file = [exists |-> TRUE, head |-> preamble \o <<HeaderLine>>, rows |-> rows]
    /\ table = <<>>
    /\ sequence = 0
    /\ categories = <<>>
    /\ category_sequence = 0
    /\ rules = <<>>
    /\ rule_sequence = 0
    /\ arg = <<>>
    /\ last = NoCall

Parsed(r) ==
    /\ last' = [NoCall EXCEPT !.op = "_parse_csv",
                              !.outcome = IF r.error = "" THEN "return" ELSE "raise",
                              !.error = r.error, !.result = r.rows]
    /\ UNCHANGED <<file, table, sequence, catvars, arg>>

\* CSVImporter('french_bank')._parse_csv(filepath)
ParseCsv == Parsed(_parse_csv(DEFAULT_CONFIG, FileLines(file)))

ParseNext == ParseCsv

ParseSpec == ParseInit /\ [][ParseNext]_vars

(***************************************************************************)
(* _clean_amount on the texts of amounts.                                  *)
(***************************************************************************)
\* most groups of three digits after the leading digits of an amount
MaxGroups == 1

LeadDigits == {<<"1">>, <<"1","2">>}

DigitGroups == {<<"3","3","0">>, <<"0","0","5">>}

FractionDigits == {<<>>, <<"5">>, <<"5","5">>}

\* what stands between the groups of three digits
GroupSeparators == {<<>>, <<" ">>, <<NBSP>>, <<",">>, <<".">>}

DecimalMarks == {<<",">>, <<".">>}

\* the ways of writing an amount: its sign, its leading digits followed by
\* its groups of three digits, its decimal digits, and the separators used
Representations ==
    [negative : BOOLEAN,
     lead : LeadDigits,
     groups : LinesUpTo(DigitGroups, MaxGroups),
     fraction : FractionDigits,
     separator : GroupSeparators,
     mark : DecimalMarks]

\* the text of an amount written in one of these ways
AmountText(rep) ==
    (IF rep.negative THEN <<"-">> ELSE <<>>)
    \o str_join(rep.separator, <<rep.lead>> \o rep.groups)
    \o (IF rep.fraction = <<>> THEN <<>> ELSE rep.mark \o rep.fraction)

\* texts that are not amounts, and a missing cell
NotAmounts == {<<>>, <<" "," ">>, <<"a","b","c">>, <<"1","2","a","b","c">>, <<"n","a","n">>, <<"-">>, None}

AmountTexts == {AmountText(rep) : rep \in Representations} \cup NotAmounts

AmountInit ==
    /\ file = [exists |-> FALSE, head |-> <<>>, rows |-> <<>>]
    /\ table = <<>>
    /\ sequence = 0
    /\ categories = <<>>
    /\ category_sequence = 0
    /\ rules = <<>>
    /\ rule_sequence = 0
    /\ arg \in AmountTexts
    /\ last = NoCall

\* CSVImporter()._clean_amount(arg)
CleanAmount ==
    /\ last' = [NoCall EXCEPT !.op = "_clean_amount", !.outcome = "return",
                              !.result = _clean_amount(arg)]
    /\ UNCHANGED <<file, table, sequence, catvars, arg>>

AmountNext == CleanAmount

AmountSpec == AmountInit /\ [][AmountNext]_vars

(***************************************************************************)
(* import_file on one row whose debit and credit cells vary.               *)
(***************************************************************************)
\* what a debit or credit cell holds: nothing, blanks, zero, amounts in
\* several formats, a negative amount, a text that is not an amount
AmountCells == {<<>>, <<" ">>, <<"0">>, <<"2","5",".","5","0">>, <<"5","0",",","0","0">>, <<"1"," ","3","3","0",",","5","5">>, <<"-","5">>, <<"a","b","c">>}

SignInit ==
    /\ \E debit \in AmountCells, credit \in AmountCells :
          file = [exists |-> TRUE, head |-> <<HeaderLine>>,
                  rows |-> << <<<<"0","1","/","0","1","/","2","0","2","5">>, <<"P","A","I","E","M","E","N","T"," ","L","I","D","L">>, debit, credit>> >>]
    /\ table = <<>>
    /\ sequence = 0
    /\ categories = <<>>
    /\ category_sequence = 0
    /\ rules = <<>>
    /\ rule_sequence = 0
    /\ arg = <<>>
    /\ last = NoCall

SignNext == \E usedb \in BOOLEAN : ImportFile(usedb)

SignSpec == SignInit /\ [][SignNext]_vars

(***************************************************************************)
(* _parse_description on descriptions made of a prefix and a remainder.    *)
(***************************************************************************)
\* how a description starts: with no type, with a type as the bank writes
\* it, with a type in lower case, after blanks
DescriptionStarts ==
    {<<>>, <<"A","C","H","A","T">>, <<" ">>}
    \cup {transaction_types[t] : t \in 1..Len(transaction_types)}
    \cup {str_lower(transaction_types[t]) : t \in 1..Len(transaction_types)}
    \cup {<<" "," ">> \o transaction_types[t] : t \in 1..Len(transaction_types)}

\* what follows: nothing, a name, a name over two lines and with repeated
\* spaces, card references and names after them, a name that starts with X,
\* letters that continue the first word, a name of more than 50 characters
DescriptionEnds ==
    {<<>>, <<" ">>,
     <<" ","L","B","C"," ","F","r","a","n","c","e">>,
     <<" "," ","L","B","C","\n","F","r","a","n","c","e"," ">>,
     <<" ","X","3","5","7","3"," ","L","I","D","L"," ","0","7","8","0">>,
     <<" ","X","3","5","7","3">>,
     <<" ","L","I","D","L">>,
     <<" ","X","E","R","O","X"," ","P","A","R","I","S">>,
     <<" ","x","3","5","7","3"," ","L","I","D","L">>,
     <<" ","A","1","2","3","4"," ","L","I","D","L">>,
     <<"S"," ","D","I","V","E","R","S">>,
     <<" ","S","O","C","I","E","T","E"," ","G","E","N","E","R","A","L","E"," ","D","E"," ","D","I","S","T","R","I","B","U","T","I","O","N"," ","E","T"," ","D","E"," ","S","E","R","V","I","C","E","S"," ","D","U"," ","S","U","D"," ","O","U","E","S","T">>}

DescriptionTexts == {s \o e : s \in DescriptionStarts, e \in DescriptionEnds}

DescriptionInit ==
    /\ file = [exists |-> FALSE, head |-> <<>>, rows |-> <<>>]
    /\ table = <<>>
    /\ sequence = 0
    /\ categories = <<>>
    /\ category_sequence = 0
    /\ rules = <<>>
    /\ rule_sequence = 0
    /\ arg \in DescriptionTexts
    /\ last = NoCall

\* CSVImporter()._parse_description(arg)
ParseDescription ==
    /\ last' = [NoCall EXCEPT !.op = "_parse_description", !.outcome = "return",
                              !.result = _parse_description(arg)]
    /\ UNCHANGED <<file, table, sequence, catvars, arg>>

DescriptionNext == ParseDescription

DescriptionSpec == DescriptionInit /\ [][DescriptionNext]_vars

(***************************************************************************)
(* import_file on files whose column names were decoded with the wrong     *)
(* encoding.                                                               *)
(***************************************************************************)
\* the names of a column: as the profile writes it, UTF-8 read as Latin-1,
\* and the accented letter replaced by U+FFFD
MangledLabels == {<<"L","i","b","e","l","l","é">>, <<"L","i","b","e","l","l","Ã","©">>, <<"L","i","b","e","l","l","�">>}

MangledDebits == {<<"D","é","b","i","t"," ","e","u","r","o","s">>, <<"D","Ã","©","b","i","t"," ","e","u","r","o","s">>, <<"D","�","b","i","t"," ","e","u","r","o","s">>}

MangledCredits == {<<"C","r","é","d","i","t"," ","e","u","r","o","s">>, <<"C","r","Ã","©","d","i","t"," ","e","u","r","o","s">>, <<"C","r","�","d","i","t"," ","e","u","r","o","s">>}

MangledHeaderLines ==
    {<<<<"D","a","t","e">>, label, debit, credit>> :
        label \in MangledLabels, debit \in MangledDebits, credit \in MangledCredits}

\* a row whose debit and credit cells both hold an amount
RowBoth == <<<<"0","3","/","0","1","/","2","0","2","5">>, <<"T","A","X","I">>, <<"5">>, <<"1"," ","3","3","0",",","5","5">>>>

MangledRows == {RowLidl, RowEdf, RowBoth}

MangledInit ==
    /\ \E header \in MangledHeaderLines, row \in MangledRows :
          file = [exists |-> TRUE, head |-> <<header>>, rows |-> <<row>>]
    /\ table = <<>>
    /\ sequence = 0
    /\ categories = <<>>
    /\ category_sequence = 0
    /\ rules = <<>>
    /\ rule_sequence = 0
    /\ arg = <<>>
    /\ last = NoCall

MangledNext == \E usedb \in BOOLEAN : ImportFile(usedb)

MangledSpec == MangledInit /\ [][MangledNext]_vars

(***************************************************************************)
(* The categories of the stored transactions and the category store.       *)
(***************************************************************************)
\* the categories the user assigns by hand and deletes: default ones
ReferencedCategories == {"Transport", "Logement"}

\* the category store after init_categories on a new database
SeededStore ==
    init_categories([categories |-> <<>>, category_sequence |-> 0,
                     rules |-> <<>>, rule_sequence |-> 0])

\* the store after the application has started on a new database and two
\* statements were imported: the default taxonomy and two transactions
\* without a category, one of them with no keyword of AUTO_RULES
ReferenceInit ==
    /\ file = [exists |-> FALSE, head |-> <<>>, rows |-> <<>>]
    /\ table = <<[id |-> 1, date |-> <<"2","0","2","5","-","0","1","-","0","1">>, description |-> <<"P","A","I","E","M","E","N","T"," ","L","I","D","L">>,
                  amount |-> Dec(50, 0), category |-> NULL],
                 [id |-> 2, date |-> <<"2","0","2","5","-","0","1","-","0","2">>, description |-> <<"A","c","h","a","t"," ","x","y","z">>,
                  amount |-> Dec(5, 0), category |-> NULL]>>
    /\ sequence = 2
    /\ categories = SeededStore.categories
    /\ category_sequence = SeededStore.category_sequence
    /\ rules = <<>>
    /\ rule_sequence = 0
    /\ arg = <<>>
    /\ last = NoCall

ReferenceNext ==
    \/ CategorizeAllAuto
    \/ \E transaction_id \in 1..3, category \in ReferencedCategories :
           CategorizeTransaction(transaction_id, category)
    \/ \E category_name \in ReferencedCategories : DeleteCategory(category_name)

ReferenceSpec == ReferenceInit /\ [][ReferenceNext]_vars

(***************************************************************************)
(* import_file on two rows whose labels differ in their whitespace.        *)
(***************************************************************************)
\* one label written by the bank in several ways: on one line, with a
\* repeated space, over two lines of a quoted field, between blanks, over
\* two lines after a space; and another label
Labels ==
    {<<"P","A","I","E","M","E","N","T"," ","L","I","D","L">>, <<"P","A","I","E","M","E","N","T"," "," ","L","I","D","L">>, <<"P","A","I","E","M","E","N","T","\n","L","I","D","L">>, <<" ","P","A","I","E","M","E","N","T"," ","L","I","D","L"," ">>,
     <<"P","A","I","E","M","E","N","T"," ","\n","L","I","D","L">>, <<"P","A","I","E","M","E","N","T"," ","E","D","F">>}

LabelRow(label) == <<<<"0","1","/","0","1","/","2","0","2","5">>, label, <<"0">>, <<"5","0",",","0","0">>>>

LabelInit ==
    /\ \E first \in Labels, second \in Labels :
          file = [exists |-> TRUE, head |-> <<HeaderLine>>,
                  rows |-> <<LabelRow(first), LabelRow(second)>>]
    /\ table = <<>>
    /\ sequence = 0
    /\ categories = <<>>
    /\ category_sequence = 0
    /\ rules = <<>>
    /\ rule_sequence = 0
    /\ arg = <<>>
    /\ last = NoCall

LabelNext == \E usedb \in BOOLEAN : ImportFile(usedb)

LabelSpec == LabelInit /\ [][LabelNext]_vars

(***************************************************************************)
(* Statements that hold a row several times, and the removal of the        *)
(* duplicates they leave in the store.                                     *)
(***************************************************************************)
DuplicateInit ==
    /\ \E rows \in LinesUpTo(StatementRows, MaxRows) :
          file = [exists |-> TRUE, head |-> <<HeaderLine>>, rows |-> rows]
    /\ table = <<>>
    /\ sequence = 0
    /\ categories = <<>>
    /\ category_sequence = 0
    /\ rules = <<>>
    /\ rule_sequence = 0
    /\ arg = <<>>
    /\ last = NoCall

\* again: the call follows a call of remove_duplicate_transactions
Deduplicated(r) ==
    /\ table' = r.db.table
    /\ sequence' = r.db.sequence
    /\ last' = [NoCall EXCEPT !.op = "remove_duplicates", !.outcome = "return",
                              !.again = (last.op = "remove_duplicates"),
                              !.count = r.count, !.before = table]
    /\ UNCHANGED <<file, catvars, arg>>

\* Categorizer(db).remove_duplicate_transactions()
RemoveDuplicates ==
    Deduplicated(remove_duplicate_transactions([table |-> table, sequence |-> sequence,
                                                error |-> ""]))

DuplicateNext ==
    \/ ImportFile(TRUE)
    \/ \E transaction_id \in 1..(MaxStore + 1), category \in ManualCategories :
           CategorizeTransaction(transaction_id, category)
    \/ RemoveDuplicates

DuplicateSpec == DuplicateInit /\ [][DuplicateNext]_vars

(***************************************************************************)
(* What a file holds, read from its cells and not through the importer:    *)
(* the cells of a data row under the header of the profile are the date,   *)
(* the description, the debit and the credit.                              *)
(***************************************************************************)
\* the header line of the profile is found and its columns resolve
HeaderResolves(f) ==
    f.exists /\ f.head \in {<<HeaderLine>>, <<MetadataLine, HeaderLine>>,
                            <<HeaderLine, RowBlank>>}

\* every data row has a cell for every column of the header, and no more
AllFieldsPresent(f) == \A i \in 1..Len(f.rows) : Len(f.rows[i]) = Len(HeaderLine)

DateParses(cells) == _parse_date(cells[1]).ok

HasDescription(cells) == str_strip(cells[2]) # <<>>

ValidRow(cells) ==
    Len(cells) = Len(HeaderLine) /\ DateParses(cells) /\ HasDescription(cells)

\* the transaction a valid row stands for
RowTransaction(cells) ==
    Transaction(_parse_date(cells[1]).value, str_strip(cells[2]),
                DebitCredit(_clean_amount(cells[3]), _clean_amount(cells[4])))

SameTriple(a, b) ==
    a.date = b.date /\ a.description = b.description /\ DecEq(a.amount, b.amount)

Stored(tbl, t) == \E i \in 1..Len(tbl) : SameTriple(tbl[i], t)

ValidRows(f) == SelectSeq(f.rows, ValidRow)

ValidTransactions(f) == [i \in 1..Len(ValidRows(f)) |-> RowTransaction(ValidRows(f)[i])]

\* the row-level warning of a row that is not valid, at its index
RowWarning(cells, idx) ==
    IF ~DateParses(cells) THEN Warning(idx, "Cannot parse date", 0)
    ELSE Warning(idx, "Empty description, skipping", 0)

RECURSIVE RowWarnings(_, _)
RowWarnings(rows, idx) ==
    IF idx > Len(rows) THEN <<>>
    ELSE (IF ValidRow(rows[idx]) THEN <<>> ELSE <<RowWarning(rows[idx], idx)>>)
         \o RowWarnings(rows, idx + 1)

IsRowWarning(w) ==
    w.row >= 1 /\ w.text \in {"Cannot parse date", "Empty description, skipping"}

\* the fields of a stored row that an import sets
Fields(row) == [date |-> row.date, description |-> row.description,
                amount |-> row.amount, category |-> row.category]

\* the rows a call added to the table
Added == [i \in 1..(Len(table) - Len(last.before)) |-> Fields(table[Len(last.before) + i])]

KeepsBefore == /\ Len(table) >= Len(last.before)
               /\ SubSeq(table, 1, Len(last.before)) = last.before

ImportReturned == last.op = "import_file" /\ last.outcome # "raise"

(***************************************************************************)
(* C1                                                                      *)
(***************************************************************************)
\* C1: an import_file of a file into a store, repeated at once after it has
\* completed, accepts no transaction, returns a duplicateCount equal to the
\* number of valid data rows of the file, and leaves the number of stored
\* transactions unchanged.
C1_IdempotentReimport ==
    (last.op = "import_file" /\ last.again) =>
        /\ last.outcome = "return3"
        /\ last.transactions = <<>>
        /\ last.duplicates_skipped = Len(ValidRows(file))
        /\ Len(table) = Len(last.before)

(***************************************************************************)
(* C2                                                                      *)
(***************************************************************************)
\* C2 as stated: no two stored transactions have equal (date, description,
\* amount).
C2_NoEqualTriples ==
    \A i, j \in 1..Len(table) : i # j => ~SameTriple(table[i], table[j])

\* C2, amended: an import_file call keeps the transactions the store held
\* and never stores a transaction whose (date, description, amount) equals
\* that of a transaction the store held before the call; stored transactions
\* with equal triples were stored by one call.
C2_NoStoredTripleAgain ==
    (last.op = "import_file" /\ last.usedb) =>
        /\ KeepsBefore
        /\ \A i \in 1..Len(Added) : ~Stored(last.before, Added[i])

\* an import into a store that holds one of the file's two transactions
C2_Witness ==
    /\ ImportReturned /\ last.usedb
    /\ last.duplicates_skipped = 1
    /\ Len(last.before) = 1
    /\ Len(table) = 2

(***************************************************************************)
(* C3                                                                      *)
(***************************************************************************)
\* C3: every row of one import_file call is checked against the store as it
\* was before the call: the accepted transactions are the valid rows, in
\* file order, whose triple the store did not hold before the call, rows
\* equal to each other included; duplicateCount counts the valid rows whose
\* triple it held; and the store afterwards is the store before followed by
\* the accepted transactions.
C3_CheckedAgainstStoreBefore ==
    (last.op = "import_file" /\ last.outcome = "return3" /\ last.usedb
        /\ HeaderResolves(file) /\ AllFieldsPresent(file)) =>
        /\ last.transactions =
              SelectSeq(ValidTransactions(file), LAMBDA t : ~Stored(last.before, t))
        /\ last.duplicates_skipped =
              Len(SelectSeq(ValidTransactions(file), LAMBDA t : Stored(last.before, t)))
        /\ KeepsBefore
        /\ Added = last.transactions

\* two equal rows of one file, both stored by an import into an empty store
C3_Witness ==
    /\ last.op = "import_file" /\ last.outcome = "return3" /\ last.usedb
    /\ Len(file.rows) = 2 /\ file.rows[1] = file.rows[2]
    /\ last.before = <<>>
    /\ Len(table) = 2 /\ SameTriple(table[1], table[2])

(***************************************************************************)
(* C4                                                                      *)
(***************************************************************************)
\* the file without its rows of an unparseable date or an empty description
WithoutBadRows(f) == [f EXCEPT !.rows = SelectSeq(@, ValidRow)]

\* the call of last, made on another file
CallOn(f) ==
    import_file(DEFAULT_CONFIG, FileLines(f), last.usedb,
                [table |-> last.before, sequence |-> Len(last.before), error |-> ""])

\* C4: for a file whose header and columns resolve and whose rows have every
\* field, the import does not raise; every data row is accepted, counted as
\* a duplicate or warned about, and only one of them; a row with an
\* unparseable date or an empty description gets a warning; and the accepted
\* rows and the store are the same as if those rows were absent.
C4_RowIsolation ==
    (last.op = "import_file" /\ HeaderResolves(file) /\ AllFieldsPresent(file)) =>
        /\ last.outcome # "raise"
        /\ Len(file.rows) > 0 =>
              /\ Len(last.transactions) + last.duplicates_skipped
                    + Len(SelectSeq(last.warnings, IsRowWarning)) = Len(file.rows)
              /\ SelectSeq(last.warnings, IsRowWarning) = RowWarnings(file.rows, 1)
        /\ last.transactions = CallOn(WithoutBadRows(file)).transactions
        /\ last.duplicates_skipped = CallOn(WithoutBadRows(file)).duplicates_skipped
        /\ table = CallOn(WithoutBadRows(file)).db.table

(***************************************************************************)
(* C5                                                                      *)
(***************************************************************************)
\* C5: when the file exists and its header and columns resolve, import_file
\* returns normally whatever its data rows hold, rows shorter or longer than
\* the header included.
C5_NoRowAborts ==
    (last.op = "import_file" /\ HeaderResolves(file)) => last.outcome # "raise"

(***************************************************************************)
(* C6                                                                      *)
(***************************************************************************)
\* no line of the file is a header line
NoHeader(f) == f.exists /\ f.head = <<>>

\* the header line lacks the description and amount columns
ColumnsUnresolved(f) == f.exists /\ f.head = <<ForeignHeaderLine>>

\* C6: when the file does not exist, has no header line, or lacks a required
\* column, import_file raises, for a lacking column with the expected and
\* the found column names, and the store holds what it held before.
C6_FatalErrors ==
    (last.op = "import_file"
        /\ (~file.exists \/ NoHeader(file) \/ ColumnsUnresolved(file))) =>
        /\ last.outcome = "raise"
        /\ ColumnsUnresolved(file) =>
              /\ last.expected = RequiredCols(DEFAULT_CONFIG)
              /\ last.found = ForeignHeaderLine
        /\ table = last.before

(***************************************************************************)
(* C7                                                                      *)
(***************************************************************************)
\* C7: every import_file call that does not raise returns the triple
\* (transactions, warnings, duplicateCount).
C7_ReturnsTriple == ImportReturned => last.outcome = "return3"

C9_OnlyNulls ==
    last.op = "categorize_all_auto" =>
        /\ Len(table) = Len(last.before)
        /\ \A i \in 1..Len(table) :
              table[i] = IF last.before[i].category = NULL
                         THEN [last.before[i] EXCEPT
                                  !.category = auto_categorize(last.before[i].description)]
                         ELSE last.before[i]
        /\ last.count = Cardinality({i \in 1..Len(last.before) :
                                        last.before[i].category = NULL})
        /\ last.again => last.count = 0

\* a call on a store that holds a manual category and a null one
C9_Witness ==
    /\ last.op = "categorize_all_auto"
    /\ last.count = 1
    /\ \E i \in 1..Len(table) :
          /\ last.before[i].category \in ManualCategories
          /\ auto_categorize(table[i].description) \notin ManualCategories
          /\ table[i].category \in ManualCategories

(***************************************************************************)
(* C10                                                                     *)
(***************************************************************************)
\* C10: categorize_transaction(id, name) returns true exactly when a
\* transaction has the id; it then sets the category of that transaction to
\* name, whatever its category was, and changes nothing else; for an unknown
\* id it changes no transaction.
C10_ManualCategorization ==
    last.op = "categorize_transaction" =>
        /\ last.ok = (\E i \in 1..Len(last.before) : last.before[i].id = last.id)
        /\ Len(table) = Len(last.before)
        /\ \A i \in 1..Len(table) :
              IF last.before[i].id = last.id
              THEN /\ table[i].category = last.category
                   /\ Fields([table[i] EXCEPT !.category = NULL])
                          = Fields([last.before[i] EXCEPT !.category = NULL])
                   /\ table[i].id = last.before[i].id
              ELSE table[i] = last.before[i]
        /\ ~last.ok => table = last.before

\* a manual category set on a transaction that categorize_all_auto had categorized
C10_Witness ==
    /\ last.op = "categorize_transaction" /\ last.ok
    /\ \E i \in 1..Len(table) :
          /\ last.before[i].id = last.id
          /\ last.before[i].category \notin {NULL, last.category}
          /\ table[i].category = last.category
(***************************************************************************)
(* C11                                                                     *)
(***************************************************************************)
\* the rules in definition order: categories in order, keywords in order
\* within a category
RECURSIVE FlatRules(_)
FlatRules(c) ==
    IF c > Len(AUTO_RULES) THEN <<>>
    ELSE [k \in 1..Len(AUTO_RULES[c].keywords) |->
             [keyword |-> AUTO_RULES[c].keywords[k], category |-> AUTO_RULES[c].category]]
         \o FlatRules(c + 1)

\* the indices of the rules whose keyword occurs in the lower-cased text
Matching(description) ==
    {r \in 1..Len(FlatRules(1)) : str_in(FlatRules(1)[r].keyword, str_lower(description))}

\* the category of the first matching rule, "Autres" when there is none
FirstMatch(description) ==
    IF Matching(description) = {} THEN "Autres"
    ELSE FlatRules(1)[CHOOSE r \in Matching(description) :
                         \A o \in Matching(description) : r <= o].category

\* C11: auto_categorize returns the category of the first rule, in definition
\* order, whose keyword is a substring of the lower-cased description, and
\* "Autres" when no keyword is; the result is that of the description alone:
\* an upper-case keyword matches, and of two keywords the one of the earlier
\* category wins wherever it stands in the description.
C11_FirstMatchWins ==
    last.op = "auto_categorize" =>
        /\ last.result = FirstMatch(last.keyword)
        /\ last.keyword = <<"c","o","u","r","s"," ","T","a","x","i">> => last.result = "Transport"
        /\ last.keyword = <<"P","a","r","k","i","n","g"," ","R","E","S","T","A","U","R","A","N","T">> => last.result = "Alimentation"
        /\ last.keyword = <<"x","y","z"," ","A","c","h","a","t">> => last.result = "Autres"

\* an upper-case keyword of the first category after a keyword of the second
C11_Witness ==
    /\ last.op = "auto_categorize"
    /\ last.keyword = <<"P","a","r","k","i","n","g"," ","R","E","S","T","A","U","R","A","N","T">>
    /\ last.result = "Alimentation"

(***************************************************************************)
(* C12                                                                     *)
(***************************************************************************)
\* the stored rules whose keyword occurs in the lower-cased description and
\* whose category is stored
StoredMatches(description) ==
    {i \in 1..Len(rules) :
        /\ str_in(rules[i].keyword, str_lower(description))
        /\ \E c \in 1..Len(categories) : categories[c].id = rules[i].category_id}

CategoryName(category_id) ==
    categories[CHOOSE c \in 1..Len(categories) : categories[c].id = category_id].name

\* C12: auto_categorize matches against the rules of the category store:
\* when the store holds a rule (k, C), put there by add_rule and not deleted
\* since, auto_categorize of a description that contains k and matches no
\* earlier rule returns C.
C12_StoredRulesUsed ==
    (last.op = "auto_categorize" /\ StoredMatches(last.keyword) # {}
        /\ Matching(last.keyword) = {}) =>
        last.result = CategoryName(rules[CHOOSE i \in StoredMatches(last.keyword) :
                                      \A o \in StoredMatches(last.keyword) : i <= o].category_id)

(***************************************************************************)
(* C13                                                                     *)
(***************************************************************************)
TopLevel(c) == c.parent_id = NULL_ID

\* C13: every stored category is top-level or the child of one stored
\* top-level category: no category has a parent that has a parent, or a
\* parent that is not stored.
C13_TwoLevels ==
    \A i \in 1..Len(categories) :
        \/ TopLevel(categories[i])
        \/ \E j \in 1..Len(categories) :
              /\ categories[j].id = categories[i].parent_id
              /\ TopLevel(categories[j])

(***************************************************************************)
(* C14                                                                     *)
(***************************************************************************)
Named(rows, name) == \E i \in 1..Len(rows) : rows[i].name = name

\* C14: delete_category(name) returns true exactly when a category has the
\* name; the categories afterwards are those before without that one, each
\* with the id and the parent reference it had, the children of the deleted
\* category included; no rule row and no transaction is changed or removed.
C14_DeletesOnlyTheCategory ==
    last.op = "delete_category" =>
        /\ last.ok = Named(last.before_categories, last.name)
        /\ categories = SelectSeq(last.before_categories, LAMBDA c : c.name # last.name)
        /\ ~last.ok => categories = last.before_categories
        /\ rules = last.before_rules
        /\ table = last.before

\* the deletion of a category that has a child and a rule
C14_Witness ==
    /\ last.op = "delete_category" /\ last.ok
    /\ \E d \in 1..Len(last.before_categories) :
          /\ last.before_categories[d].name = last.name
          /\ \E i \in 1..Len(categories) :
                categories[i].parent_id = last.before_categories[d].id
          /\ \E r \in 1..Len(rules) :
                rules[r].category_id = last.before_categories[d].id
    /\ \E t \in 1..Len(table) : table[t].category = last.name

DefaultCategories == DEFAULT_CATEGORIES_EXPENSES \o DEFAULT_CATEGORIES_INCOME

\* a top-level category has the name
IsTop(rows, name) == CategoryIdUnder(rows, name, NULL_ID) # 0

\* a category of the name is the child of the top-level category named parent
IsChildOf(rows, name, parent) ==
    /\ IsTop(rows, parent)
    /\ CategoryIdUnder(rows, name, CategoryIdUnder(rows, parent, NULL_ID)) # 0

\* every default parent is top-level and every default subcategory is a
\* child of its default parent
DefaultsStored(rows) ==
    \A d \in 1..Len(DefaultCategories) :
        /\ IsTop(rows, DefaultCategories[d].parent)
        /\ \A s \in 1..Len(DefaultCategories[d].subcategories) :
              IsChildOf(rows, DefaultCategories[d].subcategories[s],
                        DefaultCategories[d].parent)

\* C16: init_categories stores the default taxonomy when the category store
\* is empty, and changes nothing when the store holds a category.
C16_SeedsOnlyEmptyStore ==
    last.op = "init_categories" =>
        /\ last.before_categories = <<>> => DefaultsStored(categories)
        /\ last.before_categories # <<>> => categories = last.before_categories
        /\ rules = last.before_rules

(***************************************************************************)
(* C17                                                                     *)
(***************************************************************************)
\* every category that was stored is stored as it was, before the new ones
KeepsCategories ==
    /\ Len(categories) >= Len(last.before_categories)
    /\ SubSeq(categories, 1, Len(last.before_categories)) = last.before_categories

\* C17 as stated: after ensure_default_categories on any store, every
\* default parent is a top-level category and every default subcategory a
\* child of its default parent; every category that existed is kept as it
\* was; a second call adds nothing.
C17_AllDefaultsOnAnyStore ==
    last.op = "ensure_default_categories" =>
        /\ DefaultsStored(categories)
        /\ KeepsCategories
        /\ ensure_default_categories(CategoryDb) = CategoryDb

\* a child category has the name
HeldByChild(rows, name) ==
    \E i \in 1..Len(rows) : rows[i].name = name /\ ~TopLevel(rows[i])

\* a category other than a child of the top-level category parent has the name
HeldOutside(rows, name, parent) ==
    \E i \in 1..Len(rows) :
        /\ rows[i].name = name
        /\ \/ ~IsTop(rows, parent)
           \/ rows[i].parent_id # CategoryIdUnder(rows, parent, NULL_ID)

\* C17, amended: after ensure_default_categories, every default parent whose
\* name no child category had is a top-level category, and every default
\* subcategory of such a parent, whose name no category other than a child
\* of that parent had, is a child of that parent; every category that
\* existed is kept with its id, name and parent, and none is deleted; no
\* rule is changed; a second call adds nothing.
C17_MissingDefaultsMerged ==
    last.op = "ensure_default_categories" =>
        /\ \A d \in 1..Len(DefaultCategories) :
              ~HeldByChild(last.before_categories, DefaultCategories[d].parent) =>
                 /\ IsTop(categories, DefaultCategories[d].parent)
                 /\ \A s \in 1..Len(DefaultCategories[d].subcategories) :
                       ~HeldOutside(last.before_categories,
                                    DefaultCategories[d].subcategories[s],
                                    DefaultCategories[d].parent) =>
                          IsChildOf(categories, DefaultCategories[d].subcategories[s],
                                    DefaultCategories[d].parent)
        /\ KeepsCategories
        /\ rules = last.before_rules
        /\ ensure_default_categories(CategoryDb) = CategoryDb

\* a call on a store that holds a category of the user and no default: the
\* call adds the defaults after it
C17_Witness ==
    /\ last.op = "ensure_default_categories"
    /\ Named(last.before_categories, "Perso")
    /\ ~Named(last.before_categories, "Courses")
    /\ Named(categories, "Perso")
    /\ IsChildOf(categories, "Courses", "Alimentation")
    /\ Len(categories) > Len(last.before_categories) + 1

(***************************************************************************)
(* C18                                                                     *)
(***************************************************************************)
\* a data row with a cell that is not blank
NonEmptyRow(cells) == \E i \in 1..Len(cells) : str_strip(cells[i]) # <<>>

\* C18: for a file with metadata lines before its header line, _parse_csv
\* returns the non-empty data rows that follow the header line, in order,
\* each keyed by the columns of the header line.
C18_HeaderAfterPreamble ==
    last.op = "_parse_csv" =>
        /\ last.outcome = "return"
        /\ last.result =
              [i \in 1..Len(SelectSeq(file.rows, NonEmptyRow)) |->
                  DictRow(HeaderLine, SelectSeq(file.rows, NonEmptyRow)[i])]

(***************************************************************************)
(* C19                                                                     *)
(***************************************************************************)
\* the number an amount stands for
AmountValue(rep) ==
    IF rep.negative
    THEN Dec(0 - NatVal(rep.lead \o str_join(<<>>, rep.groups) \o rep.fraction),
             Len(rep.fraction))
    ELSE Dec(NatVal(rep.lead \o str_join(<<>>, rep.groups) \o rep.fraction),
             Len(rep.fraction))

\* the ways of writing the claim is about: a space, a non-breaking space or
\* nothing between the groups, or groups followed by decimal digits
Normalized(rep) ==
    \/ rep.separator \in {<<>>, <<" ">>, <<NBSP>>}
    \/ rep.groups = <<>>
    \/ rep.fraction # <<>>

\* C19: _clean_amount returns the number an amount stands for, the same for
\* every way of writing it with a space, a non-breaking space or nothing
\* between the groups of three digits and ',' or '.' before the decimal
\* digits, and for groups separated by ',' or '.' when decimal digits follow:
\* "1 330,55", "1,330.55", "1.330,55" and "1330.55" all give 1330.55.
C19_SameNumber ==
    last.op = "_clean_amount" =>
        /\ \A rep \in Representations :
              (Normalized(rep) /\ arg = AmountText(rep)) =>
                 DecEq(last.result, AmountValue(rep))
        /\ arg \in {<<"1"," ","3","3","0",",","5","5">>, <<"1",",","3","3","0",".","5","5">>, <<"1",".","3","3","0",",","5","5">>, <<"1","3","3","0",".","5","5">>} =>
              DecEq(last.result, Dec(133055, 2))

\* an amount written with '.' between the groups and ',' before the decimals
C19_Witness ==
    /\ last.op = "_clean_amount"
    /\ arg = <<"1",".","3","3","0",",","5","5">>
    /\ DecEq(last.result, Dec(133055, 2))

(***************************************************************************)
(* C20                                                                     *)
(***************************************************************************)
\* C20: _clean_amount returns a number for every text and for a missing
\* cell, and returns 0 for a blank text and for a text that is not an amount.
C20_ZeroForUnparseable ==
    last.op = "_clean_amount" =>
        /\ last.outcome = "return"
        /\ ~last.result.nan
        /\ arg \in NotAmounts => last.result = Zero

(***************************************************************************)
(* C21                                                                     *)
(***************************************************************************)
\* the normalized debit and credit of the row of the file
RowDebit == _clean_amount(file.rows[1][3])

RowCredit == _clean_amount(file.rows[1][4])

\* a * 10^2 as an integer, for amounts of at most two decimals
Cents(a) == a.n * Pow10(2 - a.e)

BlankOrZero(cell) == str_strip(cell) \in {<<>>, <<"0">>}

\* C21: the amount of an accepted row is credit - debit when the normalized
\* credit is greater than 0 and -debit otherwise; a positive debit with a
\* zero or blank credit gives the negative of the debit, a zero or blank
\* debit with a positive credit gives the credit.
C21_CreditMinusDebit ==
    (last.op = "import_file" /\ last.outcome = "return3"
        /\ Len(last.transactions) = 1) =>
        /\ ~last.transactions[1].amount.nan
        /\ Cents(last.transactions[1].amount) =
              IF Cents(RowCredit) > 0 THEN Cents(RowCredit) - Cents(RowDebit)
              ELSE 0 - Cents(RowDebit)
        /\ (file.rows[1][3] = <<"2","5",".","5","0">> /\ BlankOrZero(file.rows[1][4])) =>
              last.transactions[1].amount = Dec(0 - 255, 1)
        /\ (BlankOrZero(file.rows[1][3]) /\ file.rows[1][4] = <<"1"," ","3","3","0",",","5","5">>) =>
              last.transactions[1].amount = Dec(133055, 2)

\* a row with a debit and a credit
C21_Witness ==
    /\ last.op = "import_file" /\ last.outcome = "return3"
    /\ Len(last.transactions) = 1
    /\ file.rows[1][3] = <<"2","5",".","5","0">> /\ file.rows[1][4] = <<"5","0",",","0","0">>
    /\ last.transactions[1].amount = Dec(245, 1)

(***************************************************************************)
(* C22                                                                     *)
(***************************************************************************)
\* the description with every run of whitespace collapsed to one space
Collapsed(description) == str_join(<<" ">>, str_words(description))

\* the prefixes that the collapsed description starts with, whatever its case
Prefixes(description) ==
    {t \in 1..Len(transaction_types) :
        str_startswith(str_upper(Collapsed(description)), transaction_types[t])}

FirstPrefix(description) ==
    CHOOSE t \in Prefixes(description) : \A o \in Prefixes(description) : t <= o

\* the trimmed remainder after the first matching prefix
Remainder(description) ==
    str_strip(SubSeq(Collapsed(description),
                     Len(transaction_types[FirstPrefix(description)]) + 1,
                     Len(Collapsed(description))))

\* the first 50 characters
First50(s) == SubSeq(s, 1, IF Len(s) < 50 THEN Len(s) ELSE 50)

\* the type is that of the first matching prefix, and the specific transfer
\* prefixes win over VIREMENT
TypeOfFirstPrefix ==
    /\ Prefixes(arg) # {} => last.result.type = transaction_types[FirstPrefix(arg)]
    /\ str_startswith(str_upper(Collapsed(arg)), <<"V","I","R","E","M","E","N","T"," ","E","N"," ","V","O","T","R","E"," ","F","A","V","E","U","R">>) =>
          last.result.type = <<"V","I","R","E","M","E","N","T"," ","E","N"," ","V","O","T","R","E"," ","F","A","V","E","U","R">>
    /\ str_startswith(str_upper(Collapsed(arg)), <<"V","I","R","E","M","E","N","T"," ","E","M","I","S">>) =>
          last.result.type = <<"V","I","R","E","M","E","N","T"," ","E","M","I","S">>

CardRemainder(description) ==
    IF /\ transaction_types[FirstPrefix(description)] = <<"P","A","I","E","M","E","N","T"," ","P","A","R"," ","C","A","R","T","E">>
       /\ Len(str_words(Remainder(description))) > 1
       /\ str_words(Remainder(description))[1][1] = "X"
    THEN str_join(<<" ">>, Tail(str_words(Remainder(description))))
    ELSE Remainder(description)

IsLetter(c) ==
    \E i \in 1..Len(UpperLetters) : UpperLetters[i] = c \/ LowerLetters[i] = c

\* a masked card reference: a letter followed by up to five digits
LooksLikeCardReference(word) ==
    /\ Len(word) \in 2..6
    /\ IsLetter(word[1])
    /\ IsDigits(Tail(word))

\* a name: letters only
LooksLikeName(word) == \A i \in 1..Len(word) : IsLetter(word[i])

\* C28: for a card payment, a first word after the prefix that looks like a
\* masked card reference is dropped from the counterparty when a name
\* follows it, and a first word that is a name is kept: "PAIEMENT PAR CARTE
\* X3573 LIDL 0780" gives "LIDL 0780" and "PAIEMENT PAR CARTE LIDL" gives
\* "LIDL".
C28_CardReferenceDropped ==
    (last.op = "_parse_description" /\ Prefixes(arg) # {}
        /\ last.result.type = <<"P","A","I","E","M","E","N","T"," ","P","A","R"," ","C","A","R","T","E">>
        /\ str_words(Remainder(arg)) # <<>>) =>
        /\ (/\ LooksLikeCardReference(str_words(Remainder(arg))[1])
            /\ Len(str_words(Remainder(arg))) > 1) =>
              last.result.name = First50(str_join(<<" ">>, Tail(str_words(Remainder(arg)))))
        /\ LooksLikeName(str_words(Remainder(arg))[1]) =>
              last.result.name = First50(Remainder(arg))
        /\ arg = <<"P","A","I","E","M","E","N","T"," ","P","A","R"," ","C","A","R","T","E"," ","X","3","5","7","3"," ","L","I","D","L"," ","0","7","8","0">> => last.result.name = <<"L","I","D","L"," ","0","7","8","0">>
        /\ arg = <<"P","A","I","E","M","E","N","T"," ","P","A","R"," ","C","A","R","T","E"," ","L","I","D","L">> => last.result.name = <<"L","I","D","L">>

(***************************************************************************)
(* C29                                                                     *)
(***************************************************************************)
\* C29: the counterparty is never empty and never longer than 50
\* characters; it is "-" when nothing remains after the matched prefix, and
\* for a blank description; when no prefix matches the type is "AUTRE" and
\* the counterparty is the whitespace-collapsed description cut to its
\* first 50 characters.
C29_NameBounded ==
    last.op = "_parse_description" =>
        /\ last.result.name # <<>>
        /\ Len(last.result.name) <= 50
        /\ (Prefixes(arg) # {} /\ Remainder(arg) = <<>>) => last.result.name = <<"-">>
        /\ Prefixes(arg) = {} =>
              /\ last.result.type = <<"A","U","T","R","E">>
              /\ last.result.name = IF Collapsed(arg) = <<>> THEN <<"-">>
                                    ELSE First50(Collapsed(arg))

\* a description of more than 50 characters that starts with no prefix
C29_Witness ==
    /\ last.op = "_parse_description"
    /\ Prefixes(arg) = {}
    /\ Len(Collapsed(arg)) > 50
    /\ Len(last.result.name) = 50
    /\ last.result.type = <<"A","U","T","R","E">>

(***************************************************************************)
(* C23                                                                     *)
(***************************************************************************)
\* the ways of picking n rows of the file in file order
InFileOrder(n) ==
    {pick \in [1..n -> 1..Len(file.rows)] :
        \A k \in 1..(n - 1) : pick[k] < pick[k + 1]}

\* C23: the accepted list of import_file holds accepted rows in file order,
\* and the store receives them after what it held, in the same order, with
\* ids that increase in file order.
C23_FileOrder ==
    (last.op = "import_file" /\ last.outcome = "return3"
        /\ HeaderResolves(file) /\ AllFieldsPresent(file)) =>
        /\ \E pick \in InFileOrder(Len(last.transactions)) :
              \A k \in 1..Len(last.transactions) :
                  /\ ValidRow(file.rows[pick[k]])
                  /\ last.transactions[k] = RowTransaction(file.rows[pick[k]])
        /\ last.usedb =>
              /\ Len(table) = Len(last.before) + Len(last.transactions)
              /\ \A k \in 1..Len(last.transactions) :
                    Fields(table[Len(last.before) + k]) = last.transactions[k]
              /\ \A i, j \in 1..Len(table) : i < j => table[i].id < table[j].id

\* two different rows of one file, stored in the order of the file
C23_Witness ==
    /\ last.op = "import_file" /\ last.outcome = "return3" /\ last.usedb
    /\ Len(file.rows) = 2
    /\ Len(last.transactions) = 2
    /\ last.transactions[1] # last.transactions[2]
    /\ Fields(table[1]) = RowTransaction(file.rows[1])
    /\ Fields(table[2]) = RowTransaction(file.rows[2])
    /\ table[1].id < table[2].id

ResolvedColumn(header, required_col) ==
    LET col_mapping == ColMapping(<<>>, RequiredCols(DEFAULT_CONFIG), header)
        name == dict_get(col_mapping, required_col, None)
    IN  IF \E i \in 1..Len(header) : header[i] = name
        THEN CHOOSE i \in 1..Len(header) : header[i] = name
        ELSE 0

\* C25: when the column names of the file are encoding-mangled versions of
\* the names of the profile, the date, the description, the debit and the
\* credit resolve to the first, second, third and fourth column of the file,
\* no two of them to the same column, and the import reads each row through
\* these columns.
C25_OwnColumns ==
    (last.op = "import_file" /\ file.exists /\ Len(file.head) = 1
        /\ file.head[1] \in MangledHeaderLines) =>
        /\ \A i \in 1..Len(RequiredCols(DEFAULT_CONFIG)) :
              ResolvedColumn(file.head[1], RequiredCols(DEFAULT_CONFIG)[i]) = i
        /\ last.outcome = "return3"
        /\ last.transactions = ValidTransactions(file)

(***************************************************************************)
(* C26                                                                     *)
(***************************************************************************)
\* C26: the category of every stored transaction is null or the name of a
\* category of the category store, in every state: after
\* categorize_all_auto on a store that holds the default taxonomy, after
\* categorize_transaction and after delete_category.
C26_ValidReferences ==
    \A i \in 1..Len(table) :
        table[i].category = NULL \/ Named(categories, table[i].category)

(***************************************************************************)
(* C27                                                                     *)
(***************************************************************************)
\* C27: the description of every accepted transaction is the label of its
\* row with every run of whitespace, line breaks included, collapsed to one
\* space; two rows whose labels differ only in line breaks or repeated
\* spaces give transactions of the same description, and with the same date
\* and amount of the same duplicate-identity key.
C27_DescriptionNormalized ==
    (last.op = "import_file" /\ last.outcome = "return3"
        /\ Len(last.transactions) = Len(file.rows)) =>
        /\ \A k \in 1..Len(file.rows) :
              last.transactions[k].description = Collapsed(file.rows[k][2])
        /\ \A j \in 1..Len(file.rows), k \in 1..Len(file.rows) :
              (/\ Collapsed(file.rows[j][2]) = Collapsed(file.rows[k][2])
               /\ file.rows[j][1] = file.rows[k][1]
               /\ file.rows[j][3] = file.rows[k][3]
               /\ file.rows[j][4] = file.rows[k][4])
                  => SameTriple(last.transactions[j], last.transactions[k])

(***************************************************************************)
(* C30                                                                     *)
(***************************************************************************)
\* the transaction has the smallest id among those of its triple
SmallestOfTriple(tbl, t) ==
    \A i \in 1..Len(tbl) : SameTriple(tbl[i], t) => t.id <= tbl[i].id

AloneInTriple(tbl, t) ==
    \A i \in 1..Len(tbl) : SameTriple(tbl[i], t) => tbl[i].id = t.id

\* C30: remove_duplicates leaves of the stored transactions exactly those
\* of smallest id among the transactions of equal (date, description,
\* amount), unchanged and in their order, and returns the number of
\* transactions it deleted; a transaction alone in its group stays;
\* afterwards no two stored transactions have the same triple, and a call
\* that follows at once returns 0 and changes nothing.
C30_KeepsSmallestId ==
    last.op = "remove_duplicates" =>
        /\ table = SelectSeq(last.before, LAMBDA t : SmallestOfTriple(last.before, t))
        /\ last.count = Len(last.before) - Len(table)
        /\ \A i \in 1..Len(last.before) :
              AloneInTriple(last.before, last.before[i])
                  => \E k \in 1..Len(table) : table[k] = last.before[i]
        /\ \A i \in 1..Len(table), j \in 1..Len(table) :
              SameTriple(table[i], table[j]) => i = j
        /\ last.again => last.count = 0 /\ table = last.before
        /\ remove_duplicates([table |-> table, sequence |-> sequence,
                              error |-> ""]).count = 0

\* a call that deleted the later of two transactions of one triple
C30_Witness ==
    /\ last.op = "remove_duplicates"
    /\ last.count >= 1
    /\ \E i \in 1..Len(last.before), j \in 1..Len(last.before) :
          /\ SameTriple(last.before[i], last.before[j])
          /\ last.before[i].id < last.before[j].id
          /\ \E k \in 1..Len(table) : table[k] = last.before[i]
          /\ \A k \in 1..Len(table) : table[k].id # last.before[j].id

====
